---- MODULE Spec2Model ----
(***************************************************************************)
(* Model of the metadata extraction and reconciliation core of LaCassette: *)
(*   - extractBasicMetadata   (web/src/app/api/import-youtube/route.ts)    *)
(*   - MusicMetadataEnricher.buildSearchQueries, calculateSimilarityScore, *)
(*     cleanTitleForComparison  (lib/music-metadata.ts)                    *)
(*                                                                         *)
(* A JavaScript string is a sequence of one-character strings.  Regular    *)
(* expressions are data (a sequence of items) interpreted by a             *)
(* backtracking matcher with the priorities of ECMAScript: greedy          *)
(* quantifiers try the longest repetition first, lazy ones the shortest,   *)
(* an optional group is tried before it is skipped.  Numbers are IEEE-754  *)
(* binary64 values, held exactly as multiples of 2^-60.                    *)
(***************************************************************************)
EXTENDS Integers, Sequences, FiniteSets, TLC

VARIABLES
  pc,              \* position of the call being modelled
  label,           \* extractBasicMetadata: the title argument (RawLabel)
  basicMetadata,   \* extractBasicMetadata: the returned record
  originalTitle,   \* buildSearchQueries / calculateSimilarityScore: title
  originalArtist,  \* buildSearchQueries / calculateSimilarityScore: artist
  searchQueries,   \* buildSearchQueries: the returned list
  track,           \* calculateSimilarityScore: the candidate track; bestMatch.track
  score,           \* calculateSimilarityScore: the returned number; bestMatch.score
  queryIndex,      \* searchSpotifyTrack: position of the for loop in searchQueries
  accessToken,     \* MusicMetadataEnricher.accessToken
  calls,           \* the requests sent to the providers so far, in order
  returned,        \* the candidates the searches have returned so far
  provider,        \* the provider whose record enrichMetadataWithAPIs returned
  providerRecord,  \* the value enrichMetadataWithAPIs returned
  enrichedMetadata,\* POST: enrichedMetadata
  row,             \* POST: the row inserted into song_metadata
  tokenExpiry,     \* MusicMetadataEnricher.tokenExpiry
  now,             \* Date.now(), in seconds
  callers,         \* the calls of the adapter's methods in progress, each with its position
  issued,          \* the token responses the adapter has received, in order
  event,           \* the last thing the adapter did: a call, a response, a request
  req,             \* POST: the request (its url, its authenticated user)
  response,        \* POST: the response returned
  tempFile,        \* POST: the temporary MP3 file at filePath
  effects          \* POST: the side effects so far, in order

\* the variables of the reconciliation
enrichVars == <<queryIndex, accessToken, calls, returned, provider,
                providerRecord, enrichedMetadata, row>>

\* the variables of the token cache of one adapter
adapterVars == <<tokenExpiry, now, callers, issued, event>>

\* the variables of the import handler
handlerVars == <<req, response, tempFile, effects>>

vars == <<pc, label, basicMetadata, originalTitle, originalArtist,
          searchQueries, track, score, queryIndex, accessToken, calls,
          returned, provider, providerRecord, enrichedMetadata, row,
          tokenExpiry, now, callers, issued, event, req, response, tempFile, effects>>

-----------------------------------------------------------------------------
(* Characters and strings *)

LowerLetters == <<"a","b","c","d","e","f","g","h","i","j","k","l","m",
                  "n","o","p","q","r","s","t","u","v","w","x","y","z">>
UpperLetters == <<"A","B","C","D","E","F","G","H","I","J","K","L","M",
                  "N","O","P","Q","R","S","T","U","V","W","X","Y","Z">>
Digits == {"0","1","2","3","4","5","6","7","8","9"}

Range(f) == {f[i] : i \in DOMAIN f}

\* String.prototype.toLowerCase, one character
LowerOf == [c \in Range(UpperLetters) |-> LowerLetters[CHOOSE i \in 1..26 : UpperLetters[i] = c]]
ToLowerChar(c) == IF c \in DOMAIN LowerOf THEN LowerOf[c] ELSE c

\* String.prototype.toLowerCase
ToLowerCase(s) == [i \in 1..Len(s) |-> ToLowerChar(s[i])]

\* WhiteSpace and LineTerminator of ECMAScript: what \s matches and trim() strips
WhiteSpaceChars == {" ", "\t", "\n", "\r"}
\* LineTerminator: what . does not match
LineTerminators == {"\n", "\r"}

IsSpace(c) == c \in WhiteSpaceChars

\* \w
WordChars == Range(LowerLetters) \cup Range(UpperLetters) \cup Digits \cup {"_"}
IsWordChar(c) == c \in WordChars

RECURSIVE TrimStart(_)
TrimStart(s) ==
  IF s # <<>> /\ IsSpace(Head(s)) THEN TrimStart(Tail(s)) ELSE s

RECURSIVE TrimEnd(_)
TrimEnd(s) ==
  IF s # <<>> /\ IsSpace(s[Len(s)]) THEN TrimEnd(SubSeq(s, 1, Len(s) - 1)) ELSE s

\* trim that leaves the white space at the end
Trim_StartOnly(s) == TrimStart(s)

\* String.prototype.trim
Trim(s) == TrimEnd(TrimStart(s))

\* String.prototype.includes
Includes(s, sub) ==
  \E i \in 0..(Len(s) - Len(sub)) : SubSeq(s, i + 1, i + Len(sub)) = sub

\* index of the first occurrence of character c in s, 0 if none
IndexOfChar(s, c) ==
  IF \E i \in 1..Len(s) : s[i] = c
    THEN CHOOSE i \in 1..Len(s) : s[i] = c /\ \A j \in 1..(i - 1) : s[j] # c
    ELSE 0

\* String.prototype.split(' '): split at every single separator character
RECURSIVE Split(_, _)
Split(s, c) ==
  LET i == IndexOfChar(s, c) IN
  IF i = 0 THEN <<s>>
  ELSE <<SubSeq(s, 1, i - 1)>> \o Split(SubSeq(s, i + 1, Len(s)), c)

\* Array.prototype.join(' ')
RECURSIVE Join(_, _)
Join(parts, c) ==
  IF parts = <<>> THEN <<>>
  ELSE IF Len(parts) = 1 THEN parts[1]
  ELSE parts[1] \o <<c>> \o Join(Tail(parts), c)

-----------------------------------------------------------------------------
(* Regular expressions *)

\* a literal character
Ch(c) == [k |-> "lit", c |-> c, min |-> 1, max |-> 1, lazy |-> FALSE, cap |-> 0]
\* c?
OptCh(c) == [k |-> "lit", c |-> c, min |-> 0, max |-> 1, lazy |-> FALSE, cap |-> 0]
\* a literal word
Lits(w) == [i \in 1..Len(w) |-> Ch(w[i])]
\* a quantified character class; max = -1 is unbounded; cap is the number of
\* the capturing group around it (0: none)
Cls(name, min, max, lazy, cap) ==
  [k |-> "cls", c |-> name, min |-> min, max |-> max, lazy |-> lazy, cap |-> cap]
\* \s*
WsStar == Cls("ws", 0, -1, FALSE, 0)
\* ^ and $ (no m flag)
AtStart == [k |-> "start"]
AtEnd == [k |-> "end"]
\* (?:sub)?
OptGroup(sub) == [k |-> "opt", sub |-> sub]
\* (sub1|sub2|...)
Alt(subs) == [k |-> "alt", subs |-> subs]

\* whether character c is matched by the atom of item it (ci: the i flag)
AtomMatches(it, c, ci) ==
  IF it.k = "lit"
    THEN IF ci THEN ToLowerChar(c) = ToLowerChar(it.c) ELSE c = it.c
    ELSE CASE it.c = "dot"          -> c \notin LineTerminators
           [] it.c = "ws"           -> IsSpace(c)
           [] it.c = "digit"        -> c \in Digits
           [] it.c = "notRParen"    -> c # ")"
           [] it.c = "notRBracket"  -> c # "]"
           [] it.c = "notWordNotWs" -> ~IsWordChar(c) /\ ~IsSpace(c)

\* number of consecutive characters from pos that the atom matches (at most max)
RECURSIVE RunLength(_, _, _, _, _)
RunLength(it, s, pos, ci, n) ==
  IF pos + n <= Len(s) /\ (it.max = -1 \/ n < it.max) /\ AtomMatches(it, s[pos + n], ci)
    THEN RunLength(it, s, pos, ci, n + 1)
    ELSE n

NoMatch == [ok |-> FALSE]
NoCaptures == [g \in 1..3 |-> [def |-> FALSE, s |-> <<>>]]

\* The backtracking matcher: items[k..] matched from position pos of s.
\* Returns [ok, end, caps] of the first match in priority order, or NoMatch.
RECURSIVE MatchItems(_, _, _, _, _, _)
RECURSIVE TryCount(_, _, _, _, _, _, _, _)
RECURSIVE TryAlt(_, _, _, _, _, _, _)

MatchItems(items, k, s, pos, caps, ci) ==
  IF k > Len(items) THEN [ok |-> TRUE, end |-> pos, caps |-> caps]
  ELSE LET it == items[k] IN
    CASE it.k = "start" ->
           IF pos = 1 THEN MatchItems(items, k + 1, s, pos, caps, ci) ELSE NoMatch
      [] it.k = "end" ->
           IF pos = Len(s) + 1 THEN MatchItems(items, k + 1, s, pos, caps, ci) ELSE NoMatch
      [] it.k = "opt" ->
           LET taken == MatchItems(it.sub \o SubSeq(items, k + 1, Len(items)), 1, s, pos, caps, ci)
           IN IF taken.ok THEN taken ELSE MatchItems(items, k + 1, s, pos, caps, ci)
      [] it.k = "alt" -> TryAlt(items, k, s, pos, caps, ci, 1)
      [] OTHER ->
           LET run == RunLength(it, s, pos, ci, 0) IN
           IF run < it.min THEN NoMatch
           ELSE TryCount(items, k, s, pos, caps, ci, run, IF it.lazy THEN it.min ELSE run)

\* the atom of items[k] repeated n times, then the rest; on failure the next
\* repetition count: one more (lazy) or one fewer (greedy)
TryCount(items, k, s, pos, caps, ci, run, n) ==
  LET it == items[k]
      caps2 == IF it.cap = 0 THEN caps
               ELSE [caps EXCEPT ![it.cap] = [def |-> TRUE, s |-> SubSeq(s, pos, pos + n - 1)]]
      rest == MatchItems(items, k + 1, s, pos + n, caps2, ci)
  IN IF rest.ok THEN rest
     ELSE IF it.lazy
       THEN IF n + 1 <= run THEN TryCount(items, k, s, pos, caps, ci, run, n + 1) ELSE NoMatch
       ELSE IF n - 1 >= it.min THEN TryCount(items, k, s, pos, caps, ci, run, n - 1) ELSE NoMatch

\* the alternatives of items[k] in order, each followed by the rest
TryAlt(items, k, s, pos, caps, ci, a) ==
  LET it == items[k] IN
  IF a > Len(it.subs) THEN NoMatch
  ELSE LET r == MatchItems(it.subs[a] \o SubSeq(items, k + 1, Len(items)), 1, s, pos, caps, ci)
       IN IF r.ok THEN r ELSE TryAlt(items, k, s, pos, caps, ci, a + 1)

\* String.prototype.match / RegExp.prototype.test without the g flag: the first
\* match at the leftmost start position
RECURSIVE SearchFrom(_, _, _)
SearchFrom(re, s, pos) ==
  IF pos > Len(s) + 1 THEN NoMatch
  ELSE LET r == MatchItems(re.items, 1, s, pos, NoCaptures, re.ci)
       IN IF r.ok THEN r ELSE SearchFrom(re, s, pos + 1)

RegexMatch(re, s) == SearchFrom(re, s, 1)

\* String.prototype.replace with a g-flag pattern that matches no empty string:
\* every match, scanning left to right, replaced by repl
RECURSIVE ReplaceFrom(_, _, _, _)
ReplaceFrom(re, s, repl, pos) ==
  IF pos > Len(s) THEN <<>>
  ELSE LET r == MatchItems(re.items, 1, s, pos, NoCaptures, re.ci)
       IN IF r.ok /\ r.end > pos
            THEN repl \o ReplaceFrom(re, s, repl, r.end)
            ELSE <<s[pos]>> \o ReplaceFrom(re, s, repl, pos + 1)

ReplaceAll(re, s, repl) == ReplaceFrom(re, s, repl, 1)

-----------------------------------------------------------------------------
(* extractBasicMetadata *)

UnknownArtist == <<"U","n","k","n","o","w","n"," ","A","r","t","i","s","t">>
UnknownAlbum == <<"U","n","k","n","o","w","n"," ","A","l","b","u","m">>

\* /^(.+?)\s*\(([^)]+)\)\s*-\s*(.+)$/
songYearArtistPattern ==
  [ci |-> FALSE,
   items |-> <<AtStart, Cls("dot", 1, -1, TRUE, 1), WsStar, Ch("("),
               Cls("notRParen", 1, -1, FALSE, 2), Ch(")"), WsStar, Ch("-"), WsStar,
               Cls("dot", 1, -1, FALSE, 3), AtEnd>>]

\* /^\d{4}$/
fourDigitsPattern ==
  [ci |-> FALSE, items |-> <<AtStart, Cls("digit", 4, 4, FALSE, 0), AtEnd>>]

\* the dash pattern with a greedy first group: /^(.+)\s*-\s*(.+?)(?:\s*-\s*(.+))?$/
dashPattern_Greedy ==
  [ci |-> FALSE,
   items |-> <<AtStart, Cls("dot", 1, -1, FALSE, 1), WsStar, Ch("-"), WsStar,
               Cls("dot", 1, -1, TRUE, 2),
               OptGroup(<<WsStar, Ch("-"), WsStar, Cls("dot", 1, -1, FALSE, 3)>>),
               AtEnd>>]

\* /^(.+?)\s*-\s*(.+?)(?:\s*-\s*(.+))?$/
dashPattern ==
  [ci |-> FALSE,
   items |-> <<AtStart, Cls("dot", 1, -1, TRUE, 1), WsStar, Ch("-"), WsStar,
               Cls("dot", 1, -1, TRUE, 2),
               OptGroup(<<WsStar, Ch("-"), WsStar, Cls("dot", 1, -1, FALSE, 3)>>),
               AtEnd>>]

\* /^(.+?)\s*\(([^)]+)\)$/
songVideoPattern ==
  [ci |-> FALSE,
   items |-> <<AtStart, Cls("dot", 1, -1, TRUE, 1), WsStar, Ch("("),
               Cls("notRParen", 1, -1, FALSE, 2), Ch(")"), AtEnd>>]

\* /^(.+?)\s*[:]\s*(.+)$/
artistColonPattern ==
  [ci |-> FALSE,
   items |-> <<AtStart, Cls("dot", 1, -1, TRUE, 1), WsStar, Ch(":"), WsStar,
               Cls("dot", 1, -1, FALSE, 2), AtEnd>>]

\* the value of a property access on undefined: a TypeError is thrown
TypeError == <<"TypeError">>

\* m[g].trim(): throws when group g did not take part in the match
GroupTrim(m, g) == IF m.caps[g].def THEN Trim(m.caps[g].s) ELSE TypeError

\* if (m[g]) taken as always true
GroupTruthy_Always(m, g) == TRUE

\* if (m[g]): a group that took part and is not the empty string
GroupTruthy(m, g) == m.caps[g].def /\ m.caps[g].s # <<>>

kwRemaster == <<"r","e","m","a","s","t","e","r">>
kwEdition == <<"e","d","i","t","i","o","n">>
kwOfficial == <<"o","f","f","i","c","i","a","l">>
kwVideo == <<"v","i","d","e","o">>
kwAudio == <<"a","u","d","i","o">>
kwLyrics == <<"l","y","r","i","c","s">>

\* the year test alone, without the remaster and edition keywords
IsYearLike_DigitsOnly(year) == RegexMatch(fourDigitsPattern, year).ok

\* the test on the qualifier of pattern 1
IsYearLike(year) ==
  \/ RegexMatch(fourDigitsPattern, year).ok
  \/ Includes(ToLowerCase(year), kwRemaster)
  \/ Includes(ToLowerCase(year), kwEdition)

\* the keyword test without toLowerCase
IsVideoType_CaseSensitive(videoType) ==
  \/ Includes(videoType, kwOfficial)
  \/ Includes(videoType, kwVideo)
  \/ Includes(videoType, kwAudio)
  \/ Includes(videoType, kwLyrics)
  \/ Includes(videoType, kwRemaster)

\* the test on the qualifier of the song-video pattern
IsVideoType(videoType) ==
  \/ Includes(ToLowerCase(videoType), kwOfficial)
  \/ Includes(ToLowerCase(videoType), kwVideo)
  \/ Includes(ToLowerCase(videoType), kwAudio)
  \/ Includes(ToLowerCase(videoType), kwLyrics)
  \/ Includes(ToLowerCase(videoType), kwRemaster)

\* extractBasicMetadata from "Pattern 2" on: what runs when pattern 1 returned nothing
laterRules(title) ==
  LET dashMatch == RegexMatch(dashPattern, title)
      songVideoMatch == RegexMatch(songVideoPattern, title)
      artistColonMatch == RegexMatch(artistColonPattern, title)
  IN
  \* Pattern 2: "Artist - Album - Song"
  IF dashMatch.ok /\ GroupTruthy(dashMatch, 3)
    THEN [artist |-> GroupTrim(dashMatch, 1),
          album |-> GroupTrim(dashMatch, 2),
          title |-> GroupTrim(dashMatch, 3)]
  \* Pattern 2: "Artist - Song"
  ELSE IF dashMatch.ok /\ GroupTruthy(dashMatch, 2)
    THEN [artist |-> GroupTrim(dashMatch, 1),
          album |-> UnknownAlbum,
          title |-> GroupTrim(dashMatch, 2)]
  \* "Song (Official Video)"
  ELSE IF songVideoMatch.ok /\ IsVideoType(GroupTrim(songVideoMatch, 2))
    THEN [artist |-> UnknownArtist,
          album |-> UnknownAlbum,
          title |-> GroupTrim(songVideoMatch, 1)]
  \* Pattern 3: "Artist: Song"
  ELSE IF artistColonMatch.ok
    THEN [artist |-> GroupTrim(artistColonMatch, 1),
          album |-> UnknownAlbum,
          title |-> GroupTrim(artistColonMatch, 2)]
  \* Fallback
  ELSE [artist |-> UnknownArtist, album |-> UnknownAlbum, title |-> Trim(title)]

extractBasicMetadata(title) ==
  LET songYearArtistMatch == RegexMatch(songYearArtistPattern, title) IN
  \* Pattern 1: "Song (Year) - Artist"
  IF songYearArtistMatch.ok /\ IsYearLike(GroupTrim(songYearArtistMatch, 2))
    THEN [artist |-> GroupTrim(songYearArtistMatch, 3),
          album |-> UnknownAlbum,
          title |-> GroupTrim(songYearArtistMatch, 1)]
    ELSE laterRules(title)

-----------------------------------------------------------------------------
(* Inputs of the parser: a label is the concatenation of at most            *)
(* MaxLabelTokens tokens.  yt-dlp --print title yields one line, so a label *)
(* holds no line terminator.                                                *)

MaxLabelTokens == 5

LabelTokens ==
  { <<"A">>, <<"b">>, <<" ">>, <<"-">>, <<":">>, <<"(">>, <<")">>,
    <<"(","2","0","0","9",")">>,
    <<"(","R","e","m","a","s","t","e","r",")">>,
    <<"(","V","i","d","e","o",")">> }

RECURSIVE Concat(_)
Concat(parts) == IF parts = <<>> THEN <<>> ELSE Head(parts) \o Concat(Tail(parts))

TokenLists(tokens, n) == UNION {[1..k -> tokens] : k \in 0..n}

Labels == {Concat(ts) : ts \in TokenLists(LabelTokens, MaxLabelTokens)}

Idle == <<>>

\* the reconciliation has not started
EnrichIdle ==
  /\ queryIndex = Idle
  /\ accessToken = Idle
  /\ calls = Idle
  /\ returned = Idle
  /\ provider = Idle
  /\ providerRecord = Idle
  /\ enrichedMetadata = Idle
  /\ row = Idle

\* no adapter is shared between calls
AdapterIdle ==
  /\ tokenExpiry = Idle
  /\ now = Idle
  /\ callers = Idle
  /\ issued = Idle
  /\ event = Idle

\* no request is being handled
HandlerIdle ==
  /\ req = Idle
  /\ response = Idle
  /\ tempFile = Idle
  /\ effects = Idle

InitParse ==
  /\ pc = "parse"
  /\ label \in Labels
  /\ basicMetadata = Idle
  /\ originalTitle = Idle
  /\ originalArtist = Idle
  /\ searchQueries = Idle
  /\ track = Idle
  /\ score = Idle
  /\ EnrichIdle
  /\ AdapterIdle
  /\ HandlerIdle

\* const basicMetadata = extractBasicMetadata(title)
Parse ==
  /\ pc = "parse"
  /\ basicMetadata' = extractBasicMetadata(label)
  /\ pc' = "parsed"
  /\ UNCHANGED <<label, originalTitle, originalArtist, searchQueries, track, score>>
  /\ UNCHANGED enrichVars
  /\ UNCHANGED <<adapterVars, handlerVars>>

NextParse == Parse

SpecParse == InitParse /\ [][NextParse]_vars

-----------------------------------------------------------------------------
(* IEEE-754 binary64 numbers in [0, 2): the value (hi * 2^30 + lo) * 2^-60   *)

Limb == 2^30

Dbl(hi, lo) == [hi |-> hi, lo |-> lo]

D0_0 == Dbl(0, 0)
D0_1 == Dbl(107374182, 429496736)     \* 0.1 = 0x3FB999999999999A
D0_2 == Dbl(214748364, 858993472)     \* 0.2 = 0x3FC999999999999A
D0_3 == Dbl(322122547, 214748352)     \* 0.3 = 0x3FD3333333333333
D0_4 == Dbl(429496729, 644245120)     \* 0.4 = 0x3FD999999999999A
D0_6 == Dbl(644245094, 429496704)     \* 0.6 = 0x3FE3333333333333
D0_7 == Dbl(751619276, 858993408)     \* 0.7 = 0x3FE6666666666666
D1_0 == Dbl(Limb, 0)                  \* 1.0

RECURSIVE BitLength(_)
BitLength(n) == IF n = 0 THEN 0 ELSE 1 + BitLength(n \div 2)

\* the unit in the last place of a 53-bit significand, in units of 2^-60
UlpOf(v) == IF BitLength(v.hi) > 23 THEN 2^(BitLength(v.hi) - 23) ELSE 1

\* round to nearest, ties to even
RoundToDouble(v) ==
  LET u == UlpOf(v)
      rem == v.lo % u
      down == v.lo - rem
      up == (2 * rem > u) \/ (2 * rem = u /\ (v.lo \div u) % 2 = 1)
      lo == IF up THEN down + u ELSE down
  IN Dbl(v.hi + (lo \div Limb), lo % Limb)

\* x + y
FAdd(x, y) ==
  RoundToDouble(Dbl(x.hi + y.hi + ((x.lo + y.lo) \div Limb), (x.lo + y.lo) % Limb))

\* x < y, x > y
FLess(x, y) == x.hi < y.hi \/ (x.hi = y.hi /\ x.lo < y.lo)
FGreater(x, y) == FLess(y, x)

\* Math.min(x, y)
FMin(x, y) == IF FLess(y, x) THEN y ELSE x

\* (common / longest) * 0.3 for word counts common <= longest <= 6: the
\* binary64 quotient multiplied by the binary64 0.3, both rounded to nearest
WordSimilarityWeighted(common, longest) ==
  IF common = 0 THEN D0_0
  ELSE IF common = longest THEN D0_3
  ELSE CASE <<common, longest>> = <<1, 2>> -> Dbl(161061273, 644245088)  \* 0.15
         [] <<common, longest>> = <<1, 3>> -> Dbl(107374182, 429496720)  \* 0.09999999999999999
         [] <<common, longest>> = <<2, 3>> -> Dbl(214748364, 858993440)  \* 0.19999999999999998
         [] <<common, longest>> = <<1, 4>> -> Dbl(80530636, 858993456)   \* 0.075
         [] <<common, longest>> = <<2, 4>> -> Dbl(161061273, 644245088)  \* 0.15
         [] <<common, longest>> = <<3, 4>> -> Dbl(241591910, 429496704)  \* 0.22499999999999998
         [] <<common, longest>> = <<1, 5>> -> Dbl(64424509, 472446400)   \* 0.06
         [] <<common, longest>> = <<2, 5>> -> Dbl(128849018, 944892800)  \* 0.12
         [] <<common, longest>> = <<3, 5>> -> Dbl(193273528, 343597376)  \* 0.18
         [] <<common, longest>> = <<4, 5>> -> Dbl(257698037, 816043776)  \* 0.24
         [] <<common, longest>> = <<1, 6>> -> Dbl(53687091, 214748360)   \* 0.049999999999999996
         [] <<common, longest>> = <<2, 6>> -> Dbl(107374182, 429496720)  \* 0.09999999999999999
         [] <<common, longest>> = <<3, 6>> -> Dbl(161061273, 644245088)  \* 0.15
         [] <<common, longest>> = <<4, 6>> -> Dbl(214748364, 858993440)  \* 0.19999999999999998
         [] <<common, longest>> = <<5, 6>> -> Dbl(268435456, 0)          \* 0.25

-----------------------------------------------------------------------------
(* MusicMetadataEnricher.buildSearchQueries *)

wOfficial == <<"o","f","f","i","c","i","a","l">>
wAudio == <<"a","u","d","i","o">>
wVideo == <<"v","i","d","e","o">>
wVide == <<"v","i","d","e">>
wMusic == <<"m","u","s","i","c">>
wLyric == <<"l","y","r","i","c">>
wFeat == <<"f","e","a","t">>
wFt == <<"f","t">>
wFeaturing == <<"f","e","a","t","u","r","i","n","g">>

\* /\s*\(Official\s*(Audio|Video|Music\s*Video?)\)/gi
officialTypePattern ==
  [ci |-> TRUE,
   items |-> <<WsStar, Ch("(")>> \o Lits(wOfficial) \o
             <<WsStar,
               Alt(<<Lits(wAudio), Lits(wVideo),
                     Lits(wMusic) \o <<WsStar>> \o Lits(wVide) \o <<OptCh("o")>> >>),
               Ch(")")>>]

\* /\s*\(Lyrics?\)/gi
lyricsPattern ==
  [ci |-> TRUE, items |-> <<WsStar, Ch("(")>> \o Lits(wLyric) \o <<OptCh("s"), Ch(")")>>]

\* /\s*\(Audio\)/gi
audioPattern ==
  [ci |-> TRUE, items |-> <<WsStar, Ch("(")>> \o Lits(wAudio) \o <<Ch(")")>>]

\* /\s*\(Official\)/gi
officialPattern ==
  [ci |-> TRUE, items |-> <<WsStar, Ch("(")>> \o Lits(wOfficial) \o <<Ch(")")>>]

\* /\s*\(Music\s*Video\)/gi
musicVideoPattern ==
  [ci |-> TRUE,
   items |-> <<WsStar, Ch("(")>> \o Lits(wMusic) \o <<WsStar>> \o Lits(wVideo) \o <<Ch(")")>>]

\* the five replace calls on the title: "remove common YouTube suffixes"
RemoveYouTubeSuffixes(title) ==
  ReplaceAll(musicVideoPattern,
    ReplaceAll(officialPattern,
      ReplaceAll(audioPattern,
        ReplaceAll(lyricsPattern,
          ReplaceAll(officialTypePattern, title, <<>>), <<>>), <<>>), <<>>), <<>>)

Quote == "\""

\* `artist:"${artist}" track:"${title}"`
ArtistTrackQuery(artist, title) ==
  <<"a","r","t","i","s","t",":",Quote>> \o artist \o
  <<Quote," ","t","r","a","c","k",":",Quote>> \o title \o <<Quote>>

\* `track:"${title}"`
TrackQuery(title) == <<"t","r","a","c","k",":",Quote>> \o title \o <<Quote>>

\* `${a} ${b}`
Spaced(a, b) == a \o <<" ">> \o b

\* Strategies 1 to 5: the queries that name the artist
ArtistStrategies(artist, cleanTitle) ==
  LET artistFirstPart == Split(artist, " ")[1]
      artistWords == Split(artist, " ")
      artistLastPart == artistWords[Len(artistWords)]
  IN
  IF artist # <<>> /\ artist # UnknownArtist
    THEN \* Strategies 1, 2, 3
         <<ArtistTrackQuery(artist, cleanTitle),
           Spaced(artist, cleanTitle),
           Spaced(cleanTitle, artist)>>
         \o
         \* Strategy 4: the first part of the artist name
         (IF artistFirstPart # <<>> /\ Len(artistFirstPart) > 2
            THEN <<ArtistTrackQuery(artistFirstPart, cleanTitle),
                   Spaced(artistFirstPart, cleanTitle)>>
            ELSE <<>>)
         \o
         \* Strategy 5: the last part of the artist name
         (IF artistLastPart # <<>> /\ Len(artistLastPart) > 2
               /\ artistLastPart # artistFirstPart
            THEN <<ArtistTrackQuery(artistLastPart, cleanTitle),
                   Spaced(artistLastPart, cleanTitle)>>
            ELSE <<>>)
    ELSE <<>>

\* the field query without the bare title
TitleStrategies_FieldOnly(cleanTitle) == <<TrackQuery(cleanTitle)>>

\* Strategies 6 and 7: just the title
TitleStrategies(cleanTitle) == <<TrackQuery(cleanTitle), cleanTitle>>

\* the short-title pair added from two words on
ShortTitleStrategies_FromTwoWords(cleanTitle) ==
  LET titleWords == Split(cleanTitle, " ")
      shortTitle == Join(SubSeq(titleWords, 1, 2), " ")
  IN IF Len(titleWords) > 1
       THEN <<TrackQuery(shortTitle), shortTitle>>
       ELSE <<>>

\* Strategy 8: the first two words of the title
ShortTitleStrategies(cleanTitle) ==
  LET titleWords == Split(cleanTitle, " ")
      shortTitle == Join(SubSeq(titleWords, 1, 2), " ")
  IN IF Len(titleWords) > 2
       THEN <<TrackQuery(shortTitle), shortTitle>>
       ELSE <<>>

buildSearchQueries(title, artist) ==
  LET cleanTitle == Trim(RemoveYouTubeSuffixes(title)) IN
  ArtistStrategies(artist, cleanTitle)
    \o TitleStrategies(cleanTitle)
    \o ShortTitleStrategies(cleanTitle)

-----------------------------------------------------------------------------
(* MusicMetadataEnricher.cleanTitleForComparison, calculateSimilarityScore *)

\* /\s*\(feat\.?\s*[^)]+\)/gi
featPattern ==
  [ci |-> TRUE,
   items |-> <<WsStar, Ch("(")>> \o Lits(wFeat) \o
             <<OptCh("."), WsStar, Cls("notRParen", 1, -1, FALSE, 0), Ch(")")>>]

\* /\s*\(ft\.?\s*[^)]+\)/gi
ftPattern ==
  [ci |-> TRUE,
   items |-> <<WsStar, Ch("(")>> \o Lits(wFt) \o
             <<OptCh("."), WsStar, Cls("notRParen", 1, -1, FALSE, 0), Ch(")")>>]

\* /\s*\(featuring\s*[^)]+\)/gi
featuringPattern ==
  [ci |-> TRUE,
   items |-> <<WsStar, Ch("(")>> \o Lits(wFeaturing) \o
             <<WsStar, Cls("notRParen", 1, -1, FALSE, 0), Ch(")")>>]

\* /\s*\[[^\]]+\]/gi
bracketPattern ==
  [ci |-> TRUE,
   items |-> <<WsStar, Ch("["), Cls("notRBracket", 1, -1, FALSE, 0), Ch("]")>>]

\* /[^\w\s]/g
punctuationPattern ==
  [ci |-> FALSE, items |-> <<Cls("notWordNotWs", 1, 1, FALSE, 0)>>]

\* /\s+/g
spacesPattern ==
  [ci |-> FALSE, items |-> <<Cls("ws", 1, -1, FALSE, 0)>>]

cleanTitleForComparison(title) ==
  Trim(
    ReplaceAll(spacesPattern,
      ReplaceAll(punctuationPattern,
        ReplaceAll(bracketPattern,
          ReplaceAll(featuringPattern,
            ReplaceAll(ftPattern,
              ReplaceAll(featPattern,
                RemoveYouTubeSuffixes(ToLowerCase(title)),
              <<>>), <<>>), <<>>), <<>>), <<" ">>), <<" ">>))

\* String.prototype.split(/\s+/)
RECURSIVE SplitSpaces(_)
SplitSpaces(s) ==
  LET starts == {i \in 1..Len(s) : IsSpace(s[i])} IN
  IF starts = {} THEN <<s>>
  ELSE LET i == CHOOSE a \in starts : \A b \in starts : a <= b
           n == RunLength(Cls("ws", 1, -1, FALSE, 0), s, i, FALSE, 0)
       IN <<SubSeq(s, 1, i - 1)>> \o SplitSpaces(SubSeq(s, i + n, Len(s)))

\* the filter negated: the words of the guess the candidate lacks
CommonWordCount_Negated(originalWords, spotifyWords) ==
  Cardinality({i \in 1..Len(originalWords) :
                 ~\E j \in 1..Len(spotifyWords) : spotifyWords[j] = originalWords[i]})

\* originalWords.filter(word => spotifyWords.includes(word)).length
CommonWordCount(originalWords, spotifyWords) ==
  Cardinality({i \in 1..Len(originalWords) :
                 \E j \in 1..Len(spotifyWords) : spotifyWords[j] = originalWords[i]})

MaxOf(a, b) == IF a >= b THEN a ELSE b

\* track.artists[0]?.name is a non-empty string
HasArtistName(t) == t.artists # <<>> /\ t.artists[1].name # <<>>

\* the title comparison with 0.7 for the exact match
TitleComponent_Heavier(t, title) ==
  LET cleanOriginalTitle == cleanTitleForComparison(title)
      cleanSpotifyTitle == cleanTitleForComparison(t.name)
      originalWords == SplitSpaces(ToLowerCase(cleanOriginalTitle))
      spotifyWords == SplitSpaces(ToLowerCase(cleanSpotifyTitle))
  IN IF cleanOriginalTitle = cleanSpotifyTitle THEN D0_7
     ELSE IF Includes(cleanSpotifyTitle, cleanOriginalTitle)
             \/ Includes(cleanOriginalTitle, cleanSpotifyTitle) THEN D0_4
     ELSE WordSimilarityWeighted(CommonWordCount(originalWords, spotifyWords),
                                 MaxOf(Len(originalWords), Len(spotifyWords)))

\* "Title similarity (most important)"
TitleComponent(t, title) ==
  LET cleanOriginalTitle == cleanTitleForComparison(title)
      cleanSpotifyTitle == cleanTitleForComparison(t.name)
      originalWords == SplitSpaces(ToLowerCase(cleanOriginalTitle))
      spotifyWords == SplitSpaces(ToLowerCase(cleanSpotifyTitle))
  IN IF cleanOriginalTitle = cleanSpotifyTitle THEN D0_6
     ELSE IF Includes(cleanSpotifyTitle, cleanOriginalTitle)
             \/ Includes(cleanOriginalTitle, cleanSpotifyTitle) THEN D0_4
     ELSE WordSimilarityWeighted(CommonWordCount(originalWords, spotifyWords),
                                 MaxOf(Len(originalWords), Len(spotifyWords)))

\* the artist comparison with the exact match taken on the names as written
ArtistComponent_CaseSensitive(t, artist) ==
  IF artist # <<>> /\ artist # UnknownArtist /\ HasArtistName(t)
    THEN LET spotifyArtist == t.artists[1].name IN
         IF spotifyArtist = artist THEN D0_3
         ELSE IF Includes(ToLowerCase(spotifyArtist), ToLowerCase(artist))
                 \/ Includes(ToLowerCase(artist), ToLowerCase(spotifyArtist)) THEN D0_2
         ELSE D0_0
    ELSE D0_0

\* "Artist similarity"
ArtistComponent(t, artist) ==
  IF artist # <<>> /\ artist # UnknownArtist /\ HasArtistName(t)
    THEN LET spotifyArtist == t.artists[1].name IN
         IF ToLowerCase(spotifyArtist) = ToLowerCase(artist) THEN D0_3
         ELSE IF Includes(ToLowerCase(spotifyArtist), ToLowerCase(artist))
                 \/ Includes(ToLowerCase(artist), ToLowerCase(spotifyArtist)) THEN D0_2
         ELSE D0_0
    ELSE D0_0

\* track.popularity > 50
PopularityThreshold == 50

\* a popularity bonus of 0.2
PopularityBonus_Doubled(t) == IF t.popularity > PopularityThreshold THEN D0_2 ELSE D0_0

\* "Popularity bonus"
PopularityBonus(t) == IF t.popularity > PopularityThreshold THEN D0_1 ELSE D0_0

calculateSimilarityScore(t, title, artist) ==
  FMin(FAdd(FAdd(FAdd(D0_0, TitleComponent(t, title)),
                 ArtistComponent(t, artist)),
            PopularityBonus(t)),
       D1_0)

-----------------------------------------------------------------------------
(* Inputs of the query builder: a (title, artist) guess *)

MaxTitleTokens == 3
MaxArtistTokens == 3

TitleTokens ==
  { <<"a"," ">>, <<"B">>, <<" ">>,
    <<"(","L","y","r","i","c","s",")">>,
    <<"(","O","F","F","I","C","I","A","L"," ","A","u","d","i","o",")">> }

ArtistTokens == { <<"A","b","c">>, <<"X","y","z">>, <<"d">>, <<" ">> }

QueryTitles == {Concat(ts) : ts \in TokenLists(TitleTokens, MaxTitleTokens)}

QueryArtists ==
  {Concat(ts) : ts \in TokenLists(ArtistTokens, MaxArtistTokens)} \cup {UnknownArtist}

InitQuery ==
  /\ pc = "build"
  /\ originalTitle \in QueryTitles
  /\ originalArtist \in QueryArtists
  /\ label = Idle
  /\ basicMetadata = Idle
  /\ searchQueries = Idle
  /\ track = Idle
  /\ score = Idle
  /\ EnrichIdle
  /\ AdapterIdle
  /\ HandlerIdle

\* const searchQueries = this.buildSearchQueries(originalTitle, originalArtist)
BuildQueries ==
  /\ pc = "build"
  /\ searchQueries' = buildSearchQueries(originalTitle, originalArtist)
  /\ pc' = "built"
  /\ UNCHANGED <<label, basicMetadata, originalTitle, originalArtist, track, score>>
  /\ UNCHANGED enrichVars
  /\ UNCHANGED <<adapterVars, handlerVars>>

\* a second call with the same guess
BuildQueriesAgain ==
  /\ pc = "built"
  /\ searchQueries' = buildSearchQueries(originalTitle, originalArtist)
  /\ pc' = "rebuilt"
  /\ UNCHANGED <<label, basicMetadata, originalTitle, originalArtist, track, score>>
  /\ UNCHANGED enrichVars
  /\ UNCHANGED <<adapterVars, handlerVars>>

NextQuery == BuildQueries \/ BuildQueriesAgain

SpecQuery == InitQuery /\ [][NextQuery]_vars

-----------------------------------------------------------------------------
(* Inputs of the scorer: a guess and a candidate track of a search result.  *)
(* A track has a name, a list of artists (here at most one) and an integer  *)
(* popularity.                                                              *)

MaxScoreTitleTokens == 2

ScoreTitleTokens ==
  { <<"a">>, <<"b"," ">>, <<"C"," ">>,
    <<"(","L","y","r","i","c","s",")","!">> }

ScoreTitles == {Concat(ts) : ts \in TokenLists(ScoreTitleTokens, MaxScoreTitleTokens)}

GuessArtists == { <<"A","b","c">>, UnknownArtist, <<>> }

TrackArtists ==
  { <<>>,
    << [name |-> <<"a","b","c">>] >>,
    << [name |-> <<"A","b","c"," ","d">>] >>,
    << [name |-> <<"X","y","z">>] >> }

Popularities == {PopularityThreshold, PopularityThreshold + 1}

InitScore ==
  /\ pc = "score"
  /\ originalTitle \in ScoreTitles
  /\ originalArtist \in GuessArtists
  /\ track \in [name : ScoreTitles, artists : TrackArtists, popularity : Popularities]
  /\ label = Idle
  /\ basicMetadata = Idle
  /\ searchQueries = Idle
  /\ score = Idle
  /\ EnrichIdle
  /\ AdapterIdle
  /\ HandlerIdle

\* const score = this.calculateSimilarityScore(track, originalTitle, originalArtist)
Score ==
  /\ pc = "score"
  /\ score' = calculateSimilarityScore(track, originalTitle, originalArtist)
  /\ pc' = "scored"
  /\ UNCHANGED <<label, basicMetadata, originalTitle, originalArtist, searchQueries, track>>
  /\ UNCHANGED enrichVars
  /\ UNCHANGED <<adapterVars, handlerVars>>

\* the same candidate scored against the same guess a second time
ScoreAgain ==
  /\ pc = "scored"
  /\ score' = calculateSimilarityScore(track, originalTitle, originalArtist)
  /\ pc' = "rescored"
  /\ UNCHANGED <<label, basicMetadata, originalTitle, originalArtist, searchQueries, track>>
  /\ UNCHANGED enrichVars
  /\ UNCHANGED <<adapterVars, handlerVars>>

NextScore == Score \/ ScoreAgain

SpecScore == InitScore /\ [][NextScore]_vars

-----------------------------------------------------------------------------
(* The reconciliation: POST, enrichMetadataWithAPIs and the three provider  *)
(* classes.  Every request to a provider is one step whose response is      *)
(* chosen among the outcomes the network can produce: "ok" (a 2xx response  *)
(* with a body), "status" (a non-2xx response) and "error" (fetch or        *)
(* response.json() throws).                                                 *)

\* null, where an object is expected
Null == [null |-> TRUE]

\* undefined, where a string or an array is expected
Undefined == <<"undefined">>

\* the string operand of || is falsy: undefined or ""
IsFalsy(v) == v = Undefined \/ v = <<>>

\* a || b for a string a
OrElse(a, b) == IF IsFalsy(a) THEN b ELSE a

\* a || b for a number a
NumberOrElse(a, b) == IF a = 0 THEN b ELSE a

\* a || b for an array a: only a missing array is falsy
ArrayOrElse(a, b) == IF a = Undefined THEN b ELSE a

Outcomes == {"ok", "status", "error"}

\* findBestMatch: the score of every track of the loop
TrackScores(tracks, title, artist) ==
  [k \in 1..Len(tracks) |-> calculateSimilarityScore(tracks[k], title, artist)]

\* findBestMatch: bestMatch is replaced only by a strictly higher score, so the
\* loop ends on the first track of the highest score; null for no track
BestOf(tracks, scores) ==
  IF tracks = <<>> THEN Null
  ELSE LET best == CHOOSE k \in 1..Len(tracks) :
                     /\ \A j \in 1..(k - 1) : FGreater(scores[k], scores[j])
                     /\ \A j \in (k + 1)..Len(tracks) : ~FGreater(scores[j], scores[k])
       IN [track |-> tracks[best], score |-> scores[best]]

findBestMatch(tracks, title, artist) ==
  BestOf(tracks, TrackScores(tracks, title, artist))

\* a score of 0.7 is accepted too
IsGoodMatch_Inclusive(bestMatch) == bestMatch # Null /\ ~FLess(bestMatch.score, D0_7)

\* bestMatch && bestMatch.score > 0.7
IsGoodMatch(bestMatch) == bestMatch # Null /\ FGreater(bestMatch.score, D0_7)

\* filter((genre, index, arr) => arr.indexOf(genre) === index)
RECURSIVE WithoutDuplicates(_)
WithoutDuplicates(arr) ==
  IF arr = <<>> THEN <<>>
  ELSE LET front == WithoutDuplicates(SubSeq(arr, 1, Len(arr) - 1))
           last == arr[Len(arr)]
       IN IF \E k \in 1..Len(front) : front[k] = last THEN front ELSE Append(front, last)

\* Math.round(n / 1000) for an integer n >= 0
RoundThousandth(n) == (n + 500) \div 1000

\* enrichMetadata: "Convert to our format"
SpotifyRecord(t) ==
  [title |-> t.name,
   artist |-> IF t.artists # <<>> THEN OrElse(t.artists[1].name, UnknownArtist) ELSE UnknownArtist,
   album |-> t.album.name,
   releaseDate |-> t.album.release_date,
   duration |-> RoundThousandth(t.duration_ms),
   genres |-> WithoutDuplicates(
                (IF t.artists # <<>> THEN ArrayOrElse(t.artists[1].genres, <<>>) ELSE <<>>)
                \o ArrayOrElse(t.album.genres, <<>>)),
   popularity |-> t.popularity,
   spotifyId |-> t.id,
   albumCover |-> t.album.cover,
   artistId |-> IF t.artists # <<>> THEN t.artists[1].id ELSE Undefined,
   albumId |-> t.album.id]

\* parseInt of a string of decimal digits
RECURSIVE ParseInt(_)
ParseInt(str) ==
  IF str = <<>> THEN 0
  ELSE 10 * ParseInt(SubSeq(str, 1, Len(str) - 1))
       + (CHOOSE d \in 0..9 : <<"0","1","2","3","4","5","6","7","8","9">>[d + 1] = str[Len(str)])

\* enrichMetadataWithAPIs: the record built from a Last.fm trackInfo
LastFmRecord(trackInfo, title, artist, album) ==
  [title |-> OrElse(trackInfo.name, title),
   artist |-> OrElse(trackInfo.artistName, artist),
   album |-> OrElse(trackInfo.albumTitle, album),
   releaseDate |-> OrElse(trackInfo.published, <<>>),
   duration |-> ParseInt(OrElse(trackInfo.duration, <<"0">>)),
   genres |-> ArrayOrElse(trackInfo.tags, <<>>),
   popularity |-> 0,
   spotifyId |-> Undefined,
   albumCover |-> trackInfo.image,
   artistId |-> Undefined,
   albumId |-> Undefined]

\* enrichMetadataWithAPIs: the record built from a MusicBrainz recording
MusicBrainzRecord(fullRecording, title, artist, album) ==
  [title |-> OrElse(fullRecording.title, title),
   artist |-> OrElse(fullRecording.creditName, artist),
   album |-> OrElse(fullRecording.releaseTitle, album),
   releaseDate |-> OrElse(fullRecording.releaseDate, <<>>),
   duration |-> RoundThousandth(ParseInt(OrElse(fullRecording.length, <<"0">>))),
   genres |-> ArrayOrElse(fullRecording.genres, <<>>),
   popularity |-> 0,
   spotifyId |-> Undefined,
   albumCover |-> Undefined,
   artistId |-> fullRecording.creditArtistId,
   albumId |-> fullRecording.releaseId]

\* the titles are not compared
titleSimilarity_Always(e, b) == TRUE

\* POST: enrichedMetadata.title and basicMetadata.title contain one another,
\* letter case aside; the same for the artist
titleSimilarity(e, b) ==
  \/ Includes(ToLowerCase(e.title), ToLowerCase(b.title))
  \/ Includes(ToLowerCase(b.title), ToLowerCase(e.title))

artistSimilarity(e, b) ==
  \/ Includes(ToLowerCase(e.artist), ToLowerCase(b.artist))
  \/ Includes(ToLowerCase(b.artist), ToLowerCase(e.artist))

\* POST: "a hybrid metadata object that preserves the original
\* title/artist/album but includes the enriched additional information"
HybridMetadata(e, b) ==
  [title |-> b.title,
   artist |-> b.artist,
   album |-> b.album,
   releaseDate |-> OrElse(e.releaseDate, <<>>),
   duration |-> NumberOrElse(e.duration, 0),
   genres |-> ArrayOrElse(e.genres, <<>>),
   popularity |-> NumberOrElse(e.popularity, 0),
   spotifyId |-> e.spotifyId,
   albumCover |-> e.albumCover,
   artistId |-> e.artistId,
   albumId |-> e.albumId]

\* a record that fails the validation is dropped
ValidatedMetadata_Discards(e, b) ==
  IF e = Null THEN Null
  ELSE IF titleSimilarity(e, b) /\ artistSimilarity(e, b) THEN e
  ELSE Null

\* POST: the validation of the record enrichMetadataWithAPIs returned
ValidatedMetadata(e, b) ==
  IF e = Null THEN Null
  ELSE IF titleSimilarity(e, b) /\ artistSimilarity(e, b) THEN e
  ELSE HybridMetadata(e, b)

\* POST: const finalMetadata = enrichedMetadata || basicMetadata
finalMetadata(e, b) == IF e # Null THEN e ELSE b

\* a column of the inserted row that holds a value
Column(v) == [value |-> v]

\* the row with the defaults of the hybrid record instead of null
SongMetadataRow_Defaults(e, b) ==
  [title |-> finalMetadata(e, b).title,
   artist |-> finalMetadata(e, b).artist,
   album |-> finalMetadata(e, b).album,
   release_date |-> IF e # Null /\ ~IsFalsy(e.releaseDate) THEN [date |-> e.releaseDate] ELSE Null,
   duration |-> IF e # Null THEN Column(e.duration) ELSE Column(0),
   genres |-> IF e # Null THEN Column(e.genres) ELSE Column(<<>>),
   popularity |-> IF e # Null THEN Column(e.popularity) ELSE Column(0),
   spotify_id |-> IF e # Null /\ ~IsFalsy(e.spotifyId) THEN Column(e.spotifyId) ELSE Null,
   artist_id |-> IF e # Null /\ ~IsFalsy(e.artistId) THEN Column(e.artistId) ELSE Null,
   album_id |-> IF e # Null /\ ~IsFalsy(e.albumId) THEN Column(e.albumId) ELSE Null]

\* POST: the row inserted into song_metadata (the columns of the metadata)
SongMetadataRow(e, b) ==
  [title |-> finalMetadata(e, b).title,
   artist |-> finalMetadata(e, b).artist,
   album |-> finalMetadata(e, b).album,
   release_date |-> IF e # Null /\ ~IsFalsy(e.releaseDate) THEN [date |-> e.releaseDate] ELSE Null,
   duration |-> IF e # Null /\ e.duration # 0 THEN Column(e.duration) ELSE Null,
   genres |-> IF e # Null /\ e.genres # Undefined THEN Column(e.genres) ELSE Null,
   popularity |-> IF e # Null /\ e.popularity # 0 THEN Column(e.popularity) ELSE Null,
   spotify_id |-> IF e # Null /\ ~IsFalsy(e.spotifyId) THEN Column(e.spotifyId) ELSE Null,
   artist_id |-> IF e # Null /\ ~IsFalsy(e.artistId) THEN Column(e.artistId) ELSE Null,
   album_id |-> IF e # Null /\ ~IsFalsy(e.albumId) THEN Column(e.albumId) ELSE Null]

-----------------------------------------------------------------------------
(* Inputs of the reconciliation: the label of the import and the bodies the *)
(* providers can answer with.                                               *)

EnrichLabels ==
  { <<"a","!","b">>,
    <<"A","b","-","B","-","a","!","b">> }

SpotifyAlbum ==
  [id |-> <<"al1">>, name |-> <<"B">>, release_date |-> <<"2009">>,
   cover |-> <<"cover">>, genres |-> Undefined]

SpotifyTrackOf(id, name, artists, popularity) ==
  [id |-> id, name |-> name, artists |-> artists, album |-> SpotifyAlbum,
   duration_ms |-> 215499, popularity |-> popularity]

SpotifyArtistOf(id, name) == [id |-> id, name |-> name, genres |-> Undefined]

\* the tracks a Spotify search can return
SpotifyTracks ==
  { SpotifyTrackOf(<<"t1">>, <<"a"," ","b">>,
                   <<SpotifyArtistOf(<<"ar1">>, <<"a","b","c">>)>>, PopularityThreshold),
    SpotifyTrackOf(<<"t2">>, <<"a","!","b">>,
                   <<SpotifyArtistOf(<<"ar2">>, <<"X","y","z">>)>>, PopularityThreshold + 1),
    SpotifyTrackOf(<<"t3">>, <<"a","!","b">>,
                   <<SpotifyArtistOf(<<"ar1">>, <<"A","b","c">>)>>, PopularityThreshold + 1) }

\* data.tracks.items of one search response: at most MaxResults tracks
MaxResults == 2

SearchItems == UNION {[1..n -> SpotifyTracks] : n \in 0..MaxResults}

\* the genres a detail response can carry
ArtistGenres == <<"rock">>
AlbumGenres == <<"rock", "live">>

\* data.track of a Last.fm track.getInfo response
LastFmTrackInfos ==
  { [name |-> <<"b">>, artistName |-> <<"X","y","z">>, albumTitle |-> <<"C">>,
     published |-> <<"2001">>, duration |-> <<"2","1","5">>, tags |-> <<"pop">>,
     image |-> <<"image">>],
    [name |-> <<"a","!","b">>, artistName |-> Undefined, albumTitle |-> Undefined,
     published |-> Undefined, duration |-> Undefined, tags |-> Undefined,
     image |-> Undefined] }

\* the body of a MusicBrainz recording lookup
MusicBrainzRecordings ==
  { [title |-> <<"b">>, creditName |-> <<"X","y","z">>, creditArtistId |-> <<"mba1">>,
     releaseTitle |-> <<"C">>, releaseDate |-> <<"2001">>, releaseId |-> <<"mbr1">>,
     length |-> <<"2","1","5","4","9","9">>, genres |-> <<"pop">>],
    [title |-> Undefined, creditName |-> Undefined, creditArtistId |-> Undefined,
     releaseTitle |-> Undefined, releaseDate |-> Undefined, releaseId |-> Undefined,
     length |-> Undefined, genres |-> Undefined] }

\* one entry of data.results.trackmatches.track of a Last.fm search
LastFmHits ==
  { [name |-> <<"b">>, artist |-> <<"X","y","z">>],
    [name |-> <<"a","!","b">>, artist |-> <<"A","b","c">>] }

LastFmItems == UNION {[1..n -> LastFmHits] : n \in 0..MaxResults}

\* one entry of data.recordings of a MusicBrainz search
MusicBrainzHits ==
  { [id |-> <<"mb1">>, title |-> <<"b">>, creditName |-> <<"X","y","z">>] }

MusicBrainzItems == UNION {[1..n -> MusicBrainzHits] : n \in 0..MaxResults}

\* null, where a string is expected
NullString == <<"null">>

\* data.access_token of a successful token response
Token == <<"token">>

-----------------------------------------------------------------------------
(* The reconciliation as a state machine.  One action is one request to a   *)
(* provider together with everything the code does with the answer up to    *)
(* the next request.  The answer to a request is "ok" (a 2xx response whose  *)
(* body parses), "status" (a response that is not ok; for the token          *)
(* exchange, a body without access_token) or "error" (fetch or json()        *)
(* throws).                                                                  *)

\* one request of the log
Call(p, request, query, outcome) ==
  [provider |-> p, request |-> request, query |-> query, outcome |-> outcome]

\* the logged outcome of a search that was answered with items: "empty" for none
Found(items) == IF items = <<>> THEN "empty" ELSE "ok"

Returned(p, items) == {[provider |-> p, track |-> items[k]] : k \in 1..Len(items)}

\* POST up to the call of enrichMetadataWithAPIs; enrichMetadata up to the
\* call of searchSpotifyTrack, on a new MusicMetadataEnricher
InitEnrich ==
  /\ pc = "spotifyToken"
  /\ label \in EnrichLabels
  /\ basicMetadata = extractBasicMetadata(label)
  /\ originalTitle = basicMetadata.title
  /\ originalArtist = OrElse(basicMetadata.artist, UnknownArtist)
  /\ searchQueries = <<>>
  /\ track = Null
  /\ score = Idle
  /\ queryIndex = 0
  /\ accessToken = NullString
  /\ calls = <<>>
  /\ returned = {}
  /\ provider = "none"
  /\ providerRecord = Null
  /\ enrichedMetadata = Null
  /\ row = Null
  /\ AdapterIdle
  /\ HandlerIdle

\* the failure of the Spotify request leaves enrichMetadataWithAPIs as an
\* exception
SpotifyGaveNothing_Throws ==
  /\ pc' = "thrown"
  /\ track' = Null
  /\ score' = Idle

\* searchSpotifyTrack returned null, so enrichMetadata returned null and
\* enrichMetadataWithAPIs goes on to Last.fm
SpotifyGaveNothing ==
  /\ pc' = "lastfmSearch"
  /\ track' = Null
  /\ score' = Idle

\* the end of the for loop ends the reconciliation
NextSearchQuery_GivesUp ==
  /\ track' = Null
  /\ score' = Idle
  /\ IF queryIndex < Len(searchQueries)
       THEN queryIndex' = queryIndex + 1 /\ pc' = "spotifySearch"
       ELSE queryIndex' = queryIndex /\ pc' = "validate"

\* the for loop of searchSpotifyTrack moves to the next query, or ends
NextSearchQuery ==
  /\ track' = Null
  /\ score' = Idle
  /\ IF queryIndex < Len(searchQueries)
       THEN queryIndex' = queryIndex + 1 /\ pc' = "spotifySearch"
       ELSE queryIndex' = queryIndex /\ pc' = "lastfmSearch"

\* the searches are sent whatever the token exchange answered
SpotifyToken_IgnoresFailure ==
  /\ pc = "spotifyToken"
  /\ \E outcome \in Outcomes :
       \E queries \in {buildSearchQueries(originalTitle, originalArtist)} :
          /\ calls' = Append(calls, Call("spotify", "token", <<>>, outcome))
          /\ accessToken' = IF outcome = "ok" THEN Token ELSE accessToken
          /\ searchQueries' = queries
          /\ queryIndex' = 1
          /\ pc' = IF queries = <<>> THEN "lastfmSearch" ELSE "spotifySearch"
          /\ UNCHANGED <<track, score>>
  /\ UNCHANGED <<label, basicMetadata, originalTitle, originalArtist, returned,
                 provider, providerRecord, enrichedMetadata, row>>
  /\ UNCHANGED <<adapterVars, handlerVars>>

\* searchSpotifyTrack: getAccessToken, then buildSearchQueries
SpotifyToken ==
  /\ pc = "spotifyToken"
  /\ \/ \E outcome \in Outcomes \ {"ok"} :
          /\ calls' = Append(calls, Call("spotify", "token", <<>>, outcome))
          /\ SpotifyGaveNothing
          /\ UNCHANGED <<accessToken, searchQueries, queryIndex>>
     \/ \E queries \in {buildSearchQueries(originalTitle, originalArtist)} :
          /\ calls' = Append(calls, Call("spotify", "token", <<>>, "ok"))
          /\ accessToken' = Token
          /\ searchQueries' = queries
          /\ queryIndex' = 1
          /\ pc' = IF queries = <<>> THEN "lastfmSearch" ELSE "spotifySearch"
          /\ UNCHANGED <<track, score>>
  /\ UNCHANGED <<label, basicMetadata, originalTitle, originalArtist, returned,
                 provider, providerRecord, enrichedMetadata, row>>
  /\ UNCHANGED <<adapterVars, handlerVars>>

\* searchSpotifyTrack: one turn of the for loop
SpotifySearch ==
  /\ pc = "spotifySearch"
  /\ \/ /\ calls' = Append(calls, Call("spotify", "search", searchQueries[queryIndex], "error"))
        /\ SpotifyGaveNothing
        /\ UNCHANGED <<queryIndex, returned>>
     \/ /\ calls' = Append(calls, Call("spotify", "search", searchQueries[queryIndex], "status"))
        /\ NextSearchQuery
        /\ UNCHANGED returned
     \/ \E items \in SearchItems :
          \E bestMatch \in {findBestMatch(items, originalTitle, originalArtist)} :
               /\ calls' = Append(calls, Call("spotify", "search", searchQueries[queryIndex],
                                              Found(items)))
               /\ returned' = returned \cup Returned("spotify", items)
               /\ IF items # <<>> /\ IsGoodMatch(bestMatch)
                    THEN /\ track' = bestMatch.track
                         /\ score' = bestMatch.score
                         /\ pc' = "spotifyDetails"
                         /\ UNCHANGED queryIndex
                    ELSE NextSearchQuery
  /\ UNCHANGED <<label, basicMetadata, originalTitle, originalArtist, searchQueries,
                 accessToken, provider, providerRecord, enrichedMetadata, row>>
  /\ UNCHANGED <<adapterVars, handlerVars>>

\* the record of Spotify is kept while enrichMetadataWithAPIs goes on to Last.fm
SpotifyReturns_GoesOn(t) ==
  /\ track' = t
  /\ providerRecord' = SpotifyRecord(t)
  /\ provider' = "spotify"
  /\ pc' = "lastfmSearch"

\* enrichTrackData returned the track t: enrichMetadata converts it and
\* enrichMetadataWithAPIs returns the record
SpotifyReturns(t) ==
  /\ track' = t
  /\ providerRecord' = SpotifyRecord(t)
  /\ provider' = "spotify"
  /\ pc' = "validate"

\* enrichTrackData: getAccessToken; the stored token may have expired
SpotifyDetails ==
  /\ pc = "spotifyDetails"
  /\ \E expired \in BOOLEAN :
       IF ~IsFalsy(accessToken) /\ accessToken # NullString /\ ~expired
         THEN /\ pc' = IF track.artists # <<>> THEN "spotifyArtist" ELSE "spotifyAlbum"
              /\ UNCHANGED <<calls, accessToken, track, provider, providerRecord>>
         ELSE \E outcome \in Outcomes :
                /\ calls' = Append(calls, Call("spotify", "token", <<>>, outcome))
                /\ IF outcome = "ok"
                     THEN /\ accessToken' = Token
                          /\ pc' = IF track.artists # <<>> THEN "spotifyArtist" ELSE "spotifyAlbum"
                          /\ UNCHANGED <<track, provider, providerRecord>>
                     ELSE /\ SpotifyReturns(track)
                          /\ UNCHANGED accessToken
  /\ UNCHANGED <<label, basicMetadata, originalTitle, originalArtist, searchQueries,
                 score, queryIndex, returned, enrichedMetadata, row>>
  /\ UNCHANGED <<adapterVars, handlerVars>>

\* enrichTrackData: the artist request
SpotifyArtist ==
  /\ pc = "spotifyArtist"
  /\ \E outcome \in Outcomes :
       /\ calls' = Append(calls, Call("spotify", "artist", <<>>, outcome))
       /\ \/ /\ outcome = "ok"
             /\ track' = [track EXCEPT !.artists[1].genres = ArtistGenres]
             /\ pc' = "spotifyAlbum"
             /\ UNCHANGED <<provider, providerRecord>>
          \/ /\ outcome = "status"
             /\ pc' = "spotifyAlbum"
             /\ UNCHANGED <<track, provider, providerRecord>>
          \/ /\ outcome = "error"
             /\ SpotifyReturns(track)
  /\ UNCHANGED <<label, basicMetadata, originalTitle, originalArtist, searchQueries,
                 score, queryIndex, accessToken, returned, enrichedMetadata, row>>
  /\ UNCHANGED <<adapterVars, handlerVars>>

\* enrichTrackData: the album request
SpotifyAlbumDetails ==
  /\ pc = "spotifyAlbum"
  /\ \E outcome \in Outcomes :
       /\ calls' = Append(calls, Call("spotify", "album", <<>>, outcome))
       /\ IF outcome = "ok"
            THEN SpotifyReturns([track EXCEPT !.album.genres = AlbumGenres])
            ELSE SpotifyReturns(track)
  /\ UNCHANGED <<label, basicMetadata, originalTitle, originalArtist, searchQueries,
                 score, queryIndex, accessToken, returned, enrichedMetadata, row>>
  /\ UNCHANGED <<adapterVars, handlerVars>>

\* LastFmMetadataEnricher.searchTrack and the test of its result
LastFmSearch ==
  /\ pc = "lastfmSearch"
  /\ \E outcome \in Outcomes :
       /\ IF outcome = "ok"
            THEN \E items \in LastFmItems :
                   /\ calls' = Append(calls, Call("lastfm", "search", <<>>, Found(items)))
                   /\ returned' = returned \cup Returned("lastfm", items)
                   /\ IF items # <<>>
                        THEN track' = items[1] /\ pc' = "lastfmInfo"
                        ELSE track' = Null /\ pc' = "musicbrainzSearch"
            ELSE /\ calls' = Append(calls, Call("lastfm", "search", <<>>, outcome))
                 /\ track' = Null
                 /\ pc' = "musicbrainzSearch"
                 /\ UNCHANGED returned
  /\ UNCHANGED <<label, basicMetadata, originalTitle, originalArtist, searchQueries,
                 score, queryIndex, accessToken, provider, providerRecord,
                 enrichedMetadata, row>>
  /\ UNCHANGED <<adapterVars, handlerVars>>

\* LastFmMetadataEnricher.getTrackInfo and the record built from it
LastFmInfo ==
  /\ pc = "lastfmInfo"
  /\ \E outcome \in Outcomes :
       /\ calls' = Append(calls, Call("lastfm", "info", <<>>, outcome))
       /\ IF outcome = "ok"
            THEN \E trackInfo \in LastFmTrackInfos \cup {Null} :
                   IF trackInfo # Null
                     THEN /\ providerRecord' =
                               LastFmRecord(trackInfo, basicMetadata.title,
                                            basicMetadata.artist, basicMetadata.album)
                          /\ provider' = "lastfm"
                          /\ pc' = "validate"
                          /\ UNCHANGED track
                     ELSE /\ track' = Null
                          /\ pc' = "musicbrainzSearch"
                          /\ UNCHANGED <<provider, providerRecord>>
            ELSE /\ track' = Null
                 /\ pc' = "musicbrainzSearch"
                 /\ UNCHANGED <<provider, providerRecord>>
  /\ UNCHANGED <<label, basicMetadata, originalTitle, originalArtist, searchQueries,
                 score, queryIndex, accessToken, returned, enrichedMetadata, row>>
  /\ UNCHANGED <<adapterVars, handlerVars>>

\* MusicBrainzMetadataEnricher.searchRecording and the test of its result
MusicBrainzSearch ==
  /\ pc = "musicbrainzSearch"
  /\ \E outcome \in Outcomes :
       /\ IF outcome = "ok"
            THEN \E items \in MusicBrainzItems :
                   /\ calls' = Append(calls, Call("musicbrainz", "search", <<>>, Found(items)))
                   /\ returned' = returned \cup Returned("musicbrainz", items)
                   /\ IF items # <<>>
                        THEN track' = items[1] /\ pc' = "musicbrainzGet"
                        ELSE track' = Null /\ pc' = "validate"
            ELSE /\ calls' = Append(calls, Call("musicbrainz", "search", <<>>, outcome))
                 /\ track' = Null
                 /\ pc' = "validate"
                 /\ UNCHANGED returned
  /\ UNCHANGED <<label, basicMetadata, originalTitle, originalArtist, searchQueries,
                 score, queryIndex, accessToken, provider, providerRecord,
                 enrichedMetadata, row>>
  /\ UNCHANGED <<adapterVars, handlerVars>>

\* MusicBrainzMetadataEnricher.getRecording and the record built from it
MusicBrainzGet ==
  /\ pc = "musicbrainzGet"
  /\ \E outcome \in Outcomes :
       /\ calls' = Append(calls, Call("musicbrainz", "get", <<>>, outcome))
       /\ IF outcome = "ok"
            THEN \E fullRecording \in MusicBrainzRecordings :
                   /\ providerRecord' =
                        MusicBrainzRecord(fullRecording, basicMetadata.title,
                                          basicMetadata.artist, basicMetadata.album)
                   /\ provider' = "musicbrainz"
                   /\ pc' = "validate"
                   /\ UNCHANGED track
            ELSE /\ track' = Null
                 /\ pc' = "validate"
                 /\ UNCHANGED <<provider, providerRecord>>
  /\ UNCHANGED <<label, basicMetadata, originalTitle, originalArtist, searchQueries,
                 score, queryIndex, accessToken, returned, enrichedMetadata, row>>
  /\ UNCHANGED <<adapterVars, handlerVars>>

\* POST: enrichMetadataWithAPIs has returned; the validation of its record
Validate ==
  /\ pc = "validate"
  /\ enrichedMetadata' = ValidatedMetadata(providerRecord, basicMetadata)
  /\ pc' = "persist"
  /\ UNCHANGED <<label, basicMetadata, originalTitle, originalArtist, searchQueries,
                 track, score, queryIndex, accessToken, calls, returned, provider,
                 providerRecord, row>>
  /\ UNCHANGED <<adapterVars, handlerVars>>

\* POST: the upload, and the insert into song_metadata when it succeeded
Persist ==
  /\ pc = "persist"
  /\ \E uploaded \in BOOLEAN :
       IF uploaded
         THEN row' = SongMetadataRow(enrichedMetadata, basicMetadata) /\ pc' = "done"
         ELSE row' = row /\ pc' = "uploadFailed"
  /\ UNCHANGED <<label, basicMetadata, originalTitle, originalArtist, searchQueries,
                 track, score, queryIndex, accessToken, calls, returned, provider,
                 providerRecord, enrichedMetadata>>
  /\ UNCHANGED <<adapterVars, handlerVars>>

NextEnrich ==
  \/ SpotifyToken
  \/ SpotifySearch
  \/ SpotifyDetails
  \/ SpotifyArtist
  \/ SpotifyAlbumDetails
  \/ LastFmSearch
  \/ LastFmInfo
  \/ MusicBrainzSearch
  \/ MusicBrainzGet
  \/ Validate
  \/ Persist

SpecEnrich == InitEnrich /\ [][NextEnrich]_vars

\* every await of the request is answered or fails, so the handler goes on
FairSpecEnrich == SpecEnrich /\ WF_vars(NextEnrich)

-----------------------------------------------------------------------------
(* Vocabulary of the statements about the parser.  These definitions read   *)
(* the label by positions; they use neither the patterns nor the matcher.   *)

\* s without its leading and trailing white space
Stripped(s) ==
  LET solid == {i \in 1..Len(s) : s[i] \notin WhiteSpaceChars} IN
  IF solid = {} THEN <<>>
  ELSE SubSeq(s, CHOOSE a \in solid : \A i \in solid : a <= i,
                 CHOOSE b \in solid : \A i \in solid : b >= i)

IsBlank(s) == \A i \in 1..Len(s) : s[i] \in WhiteSpaceChars

\* s with the letters A-Z replaced by a-z
Lowered(s) ==
  [i \in 1..Len(s) |->
     IF \E n \in 1..26 : UpperLetters[n] = s[i]
       THEN LowerLetters[CHOOSE n \in 1..26 : UpperLetters[n] = s[i]]
       ELSE s[i]]

Contains(s, w) == \E i \in 1..(Len(s) - Len(w) + 1) : \A n \in 1..Len(w) : s[i + n - 1] = w[n]

HasChar(s, c) == \E i \in 1..Len(s) : s[i] = c

\* the position of the ")" closing a parenthetical opened at i: the first ")"
\* after i, with at least one character in between; 0 if there is none
CloseOf(s, i) ==
  LET js == {j \in (i + 2)..Len(s) : s[j] = ")" /\ \A n \in (i + 1)..(j - 1) : s[n] # ")"}
  IN IF js = {} THEN 0 ELSE CHOOSE j \in js : TRUE

\* the position of a dash that follows position j after white space only and is
\* itself followed by at least one character; 0 if there is none
DashAfter(s, j) ==
  LET ds == {d \in (j + 1)..(Len(s) - 1) :
               s[d] = "-" /\ \A n \in (j + 1)..(d - 1) : s[n] \in WhiteSpaceChars}
  IN IF ds = {} THEN 0 ELSE CHOOSE d \in ds : TRUE

\* "Title (Q) - Artist": the positions i of a "(" with a non-empty Title before
\* it, a closed non-empty Q after it, then a dash and a non-empty Artist
QualifierDashOpens(s) ==
  {i \in 2..Len(s) : s[i] = "(" /\ CloseOf(s, i) # 0 /\ DashAfter(s, CloseOf(s, i)) # 0}

\* "Title (Q)": the positions i of a "(" with a non-empty Title before it and a
\* non-empty Q that the last character of the label closes
TrailingQualifierOpens(s) ==
  {i \in 2..Len(s) : s[i] = "(" /\ CloseOf(s, i) = Len(s)}

Leftmost(S) == CHOOSE i \in S : \A n \in S : i <= n

\* the reading of the label as Title (Q) - Artist, at its leftmost "(" that allows one
AsQualifierDash(s) ==
  LET i == Leftmost(QualifierDashOpens(s))
      j == CloseOf(s, i)
      d == DashAfter(s, j)
  IN [Title |-> SubSeq(s, 1, i - 1), Q |-> SubSeq(s, i + 1, j - 1),
      Artist |-> SubSeq(s, d + 1, Len(s))]

\* the reading of the label as Title (Q), at its leftmost "(" that allows one
AsTrailingQualifier(s) ==
  LET i == Leftmost(TrailingQualifierOpens(s))
  IN [Title |-> SubSeq(s, 1, i - 1), Q |-> SubSeq(s, i + 1, Len(s) - 1)]

\* Q (trimmed) is exactly four digits, or contains "remaster" or "edition"
YearOrEditionMarker(q) ==
  \/ Len(Stripped(q)) = 4 /\ \A i \in 1..4 : Stripped(q)[i] \in Digits
  \/ Contains(Lowered(q), <<"r","e","m","a","s","t","e","r">>)
  \/ Contains(Lowered(q), <<"e","d","i","t","i","o","n">>)

\* Q contains "official", "video", "audio", "lyrics" or "remaster"
VideoTypeMarker(q) ==
  \/ Contains(Lowered(q), <<"o","f","f","i","c","i","a","l">>)
  \/ Contains(Lowered(q), <<"v","i","d","e","o">>)
  \/ Contains(Lowered(q), <<"a","u","d","i","o">>)
  \/ Contains(Lowered(q), <<"l","y","r","i","c","s">>)
  \/ Contains(Lowered(q), <<"r","e","m","a","s","t","e","r">>)

\* rule 1 applies to the label
RuleOneApplies(s) ==
  QualifierDashOpens(s) # {} /\ YearOrEditionMarker(AsQualifierDash(s).Q)

\* the dash-separated segments of the label
RECURSIVE SegmentsFrom(_, _)
SegmentsFrom(s, from) ==
  LET ds == {d \in from..Len(s) : s[d] = "-"} IN
  IF ds = {} THEN <<SubSeq(s, from, Len(s))>>
  ELSE <<SubSeq(s, from, Leftmost(ds) - 1)>> \o SegmentsFrom(s, Leftmost(ds) + 1)

DashSegments(s) == SegmentsFrom(s, 1)

IsText(v) == \A i \in DOMAIN v : Len(v[i]) = 1

Unknown(what) == <<"U","n","k","n","o","w","n"," ">> \o what

-----------------------------------------------------------------------------
(* Statements about the parser *)

\* C1: for every label the parser returns, without throwing, a record with
\* exactly the fields artist, album and title, each a string.
C1_ParserTotal ==
  pc = "parsed" =>
    /\ DOMAIN basicMetadata = {"artist", "album", "title"}
    /\ \A f \in {"artist", "album", "title"} :
         /\ basicMetadata[f] # TypeError
         /\ IsText(basicMetadata[f])

\* a two-part dash label, on which the third group of dashPattern is undefined
C1_Witness ==
  /\ pc = "parsed"
  /\ label = <<"A", "-", "b">>
  /\ basicMetadata.title = <<"b">>

\* C2: on a label Title (Q) - Artist, a Q that is four digits or contains
\* "remaster" or "edition" gives {artist: trim(Artist), album: "Unknown Album",
\* title: trim(Title)}, before the dash rule is considered; with any other Q
\* the result is the one of the later rules.
C2_QualifierDashRule ==
  (pc = "parsed" /\ QualifierDashOpens(label) # {}) =>
    LET r == AsQualifierDash(label) IN
    IF YearOrEditionMarker(r.Q)
      THEN basicMetadata = [artist |-> Stripped(r.Artist),
                            album |-> Unknown(<<"A","l","b","u","m">>),
                            title |-> Stripped(r.Title)]
      ELSE basicMetadata = laterRules(label)

C2_Witness ==
  /\ pc = "parsed"
  /\ label = <<"b", " ", "(","R","e","m","a","s","t","e","r",")", "-", "A">>
  /\ basicMetadata.title = <<"b">>
  /\ basicMetadata.artist = <<"A">>

\* C3: on a label that rule 1 leaves alone and that is two or three non-blank
\* segments separated by dashes, A - B - C gives {artist: A, album: B,
\* title: C} and A - B gives {artist: A, album: "Unknown Album", title: B},
\* each trimmed.
C3_DashRule ==
  LET segs == DashSegments(label) IN
  (/\ pc = "parsed"
   /\ ~RuleOneApplies(label)
   /\ Len(segs) \in {2, 3}
   /\ \A n \in 1..Len(segs) : ~IsBlank(segs[n])) =>
    IF Len(segs) = 3
      THEN basicMetadata = [artist |-> Stripped(segs[1]),
                            album |-> Stripped(segs[2]),
                            title |-> Stripped(segs[3])]
      ELSE basicMetadata = [artist |-> Stripped(segs[1]),
                            album |-> Unknown(<<"A","l","b","u","m">>),
                            title |-> Stripped(segs[2])]

C3_Witness ==
  /\ pc = "parsed"
  /\ label = <<"A", "-", "b", "-", "b">>
  /\ basicMetadata = [artist |-> <<"A">>, album |-> <<"b">>, title |-> <<"b">>]

\* C4: on a label Title (Q) without a dash, a Q that contains "official",
\* "video", "audio", "lyrics" or "remaster" gives {artist: "Unknown Artist",
\* album: "Unknown Album", title: trim(Title)}, whether or not the label holds
\* a colon; when the label has a dash inside, an earlier rule decides and the
\* artist is taken from the label.
C4_VideoQualifierRule ==
  (/\ pc = "parsed"
   /\ TrailingQualifierOpens(label) # {}
   /\ VideoTypeMarker(AsTrailingQualifier(label).Q)) =>
    IF ~HasChar(label, "-")
      THEN basicMetadata = [artist |-> Unknown(<<"A","r","t","i","s","t">>),
                            album |-> Unknown(<<"A","l","b","u","m">>),
                            title |-> Stripped(AsTrailingQualifier(label).Title)]
      ELSE (\E d \in 2..(Len(label) - 1) : label[d] = "-") =>
              basicMetadata.artist # Unknown(<<"A","r","t","i","s","t">>)

C4_Witness ==
  /\ pc = "parsed"
  /\ label = <<"A", ":", "b", " ", "(","V","i","d","e","o",")">>
  /\ basicMetadata.title = <<"A", ":", "b">>

\* C5: a label with no dash, no colon and no trailing keyword parenthetical
\* gives {artist: "Unknown Artist", album: "Unknown Album", title: trim(label)}.
C5_Fallback ==
  (/\ pc = "parsed"
   /\ ~HasChar(label, "-")
   /\ ~HasChar(label, ":")
   /\ ~\E i \in 1..Len(label) :
         /\ label[i] = "("
         /\ CloseOf(label, i) = Len(label)
         /\ VideoTypeMarker(SubSeq(label, i + 1, Len(label) - 1))) =>
    basicMetadata = [artist |-> Unknown(<<"A","r","t","i","s","t">>),
                     album |-> Unknown(<<"A","l","b","u","m">>),
                     title |-> Stripped(label)]

C5_Witness ==
  /\ pc = "parsed"
  /\ label = <<" ", "A", "(", "b", ")">>
  /\ basicMetadata.title = <<"A", "(", "b", ")">>

-----------------------------------------------------------------------------
(* Vocabulary of the statements about the query builder.  The title is read  *)
(* by positions, in one pass.                                               *)

\* q begins with the words ws in order, any white space between them, and
\* ends with the last of them
RECURSIVE IsWordsSpaced(_, _)
IsWordsSpaced(q, ws) ==
  LET w == Head(ws)
      blanks == {n \in 0..(Len(q) - Len(w)) :
                   \A k \in (Len(w) + 1)..(Len(w) + n) : q[k] \in WhiteSpaceChars}
  IN /\ Len(q) >= Len(w)
     /\ SubSeq(q, 1, Len(w)) = w
     /\ IF Len(ws) = 1 THEN Len(q) = Len(w)
        ELSE \E n \in blanks : IsWordsSpaced(SubSeq(q, Len(w) + n + 1, Len(q)), Tail(ws))

\* the inside of a parenthetical the builder removes: Official Audio, Official
\* Video, Official Music Video (or Vide), Lyric(s), Audio, Official, Music Video
SuffixWordings ==
  { << <<"o","f","f","i","c","i","a","l">>, <<"a","u","d","i","o">> >>,
    << <<"o","f","f","i","c","i","a","l">>, <<"v","i","d","e","o">> >>,
    << <<"o","f","f","i","c","i","a","l">>, <<"m","u","s","i","c">>, <<"v","i","d","e","o">> >>,
    << <<"o","f","f","i","c","i","a","l">>, <<"m","u","s","i","c">>, <<"v","i","d","e">> >>,
    << <<"l","y","r","i","c">> >>,
    << <<"l","y","r","i","c","s">> >>,
    << <<"a","u","d","i","o">> >>,
    << <<"o","f","f","i","c","i","a","l">> >>,
    << <<"m","u","s","i","c">>, <<"v","i","d","e","o">> >> }

\* a removable parenthetical opens at position i of s
IsSuffixAt(s, i) ==
  /\ i <= Len(s)
  /\ s[i] = "("
  /\ CloseOf(s, i) # 0
  /\ \E ws \in SuffixWordings : IsWordsSpaced(Lowered(SubSeq(s, i + 1, CloseOf(s, i) - 1)), ws)

\* the number of white space characters from position i on
BlanksAt(s, i) ==
  LET ns == {n \in 0..(Len(s) - i + 1) : \A k \in i..(i + n - 1) : s[k] \in WhiteSpaceChars}
  IN CHOOSE n \in ns : \A m \in ns : m <= n

\* s from position i on, without the removable parentheticals and the white
\* space before each
RECURSIVE WithoutSuffixesFrom(_, _)
WithoutSuffixesFrom(s, i) ==
  IF i > Len(s) THEN <<>>
  ELSE IF IsSuffixAt(s, i + BlanksAt(s, i))
    THEN WithoutSuffixesFrom(s, CloseOf(s, i + BlanksAt(s, i)) + 1)
    ELSE <<s[i]>> \o WithoutSuffixesFrom(s, i + 1)

CleanTitleOf(title) == Stripped(WithoutSuffixesFrom(title, 1))

InQuotes(v) == <<"\"">> \o v \o <<"\"">>
TrackField(v) == <<"t","r","a","c","k",":">> \o InQuotes(v)
ArtistField(v) == <<"a","r","t","i","s","t",":">> \o InQuotes(v)

SpacesIn(s) == {i \in 1..Len(s) : s[i] = " "}

\* the first two space-separated words of a title that has more than two
TwoWordPrefix(c) ==
  LET second == CHOOSE i \in SpacesIn(c) : Cardinality({n \in SpacesIn(c) : n < i}) = 1
  IN SubSeq(c, 1, second - 1)

\* the title-only queries of a clean title
TitleOnlyQueries(c) ==
  <<TrackField(c), c>> \o
  (IF Cardinality(SpacesIn(c)) + 1 > 2
     THEN <<TrackField(TwoWordPrefix(c)), TwoWordPrefix(c)>>
     ELSE <<>>)

\* the space-separated parts of the artist name
ArtistParts(a) ==
  {w \in {SubSeq(a, i, j) : i \in 1..Len(a), j \in 1..Len(a)} :
     /\ w # <<>>
     /\ ~HasChar(w, " ")
     /\ \E i \in 1..(Len(a) - Len(w) + 1) :
          /\ SubSeq(a, i, i + Len(w) - 1) = w
          /\ (i = 1 \/ a[i - 1] = " ")
          /\ (i + Len(w) - 1 = Len(a) \/ a[i + Len(w)] = " ")}

IsKnownArtist(a) == a # <<>> /\ a # Unknown(<<"A","r","t","i","s","t">>)

ThreeWordTitle == <<"a"," ","a"," ","B">>
TwoPartArtist == <<"A","b","c"," ","X","y","z">>

-----------------------------------------------------------------------------
(* Statements about the query builder *)

\* C6: for every guess the builder returns a list of at least 2 and at most 11
\* queries, and a second call with the same guess returns the identical list
\* and leaves the guess as it was.
C6_QueriesBoundedAndRepeatable ==
  /\ [](pc \in {"built", "rebuilt"} => (Len(searchQueries) >= 2 /\ Len(searchQueries) <= 11))
  /\ [][pc = "built" => /\ searchQueries' = searchQueries
                        /\ originalTitle' = originalTitle
                        /\ originalArtist' = originalArtist]_vars

\* a second call on a guess with a two-part artist and a three-word title
C6_Witness ==
  /\ pc = "rebuilt"
  /\ originalTitle = ThreeWordTitle
  /\ originalArtist = TwoPartArtist
  /\ Len(searchQueries) = 11

\* C7: with a known artist the list opens with artist:"<artist>"
\* track:"<cleanTitle>", <artist> <cleanTitle>, <cleanTitle> <artist>; the
\* list ends with track:"<cleanTitle>", <cleanTitle> and, exactly when
\* cleanTitle has more than two space-separated words, the pair for its first
\* two words; every query before these names the artist or a part of it; with
\* no artist or the sentinel the list is these title-only queries alone.
\* cleanTitle is the title without its removable parentheticals.
C7_QueryOrder ==
  pc = "built" =>
    LET c == CleanTitleOf(originalTitle)
        a == originalArtist
        tail == TitleOnlyQueries(c)
        n == Len(searchQueries) - Len(tail)
    IN /\ n >= 0
       /\ SubSeq(searchQueries, n + 1, Len(searchQueries)) = tail
       /\ IF IsKnownArtist(a)
            THEN /\ n >= 3
                 /\ searchQueries[1] = ArtistField(a) \o <<" ">> \o TrackField(c)
                 /\ searchQueries[2] = a \o <<" ">> \o c
                 /\ searchQueries[3] = c \o <<" ">> \o a
                 /\ \A k \in 1..n :
                      \/ Contains(searchQueries[k], a)
                      \/ \E w \in ArtistParts(a) : Contains(searchQueries[k], w)
            ELSE n = 0

\* a known artist and a title whose parenthetical is removed
C7_Witness ==
  /\ pc = "built"
  /\ originalArtist = <<"A","b","c">>
  /\ originalTitle = <<"a"," ","B","(","L","y","r","i","c","s",")">>
  /\ Len(searchQueries) = 7
  /\ searchQueries[3] = <<"a"," ","B"," ","A","b","c">>
  /\ searchQueries[7] = <<"a"," ","B">>

-----------------------------------------------------------------------------
(* Vocabulary of the statements about the scorer *)

FAtMost(x, y) == ~FLess(y, x)

D0_5 == Dbl(2^29, 0)                  \* 0.5
D0_9 == Dbl(966367641, 644245120)     \* 0.9 = 0x3FECCCCCCCCCCCCD
D0_6p0_3 == Dbl(966367641, 644244992) \* 0.6 + 0.3 = 0.8999999999999999
D0_6p0_3p0_1 == Dbl(1073741823, 1073741696) \* 0.6 + 0.3 + 0.1 = 0.9999999999999999

\* the title component: 0.6, 0.4 or the share of common words times 0.3
TitleWeights ==
  {D0_6, D0_4} \cup
  {WordSimilarityWeighted(k, m) : <<k, m>> \in {km \in (0..6) \X (1..6) : km[1] <= km[2]}}

ArtistWeights == {D0_0, D0_2, D0_3}

PopularityWeights == {D0_0, D0_1}

\* the white-space-separated tokens of s
TokensOf(s) ==
  {w \in {SubSeq(s, i, j) : i \in 1..Len(s), j \in 1..Len(s)} :
     /\ w # <<>>
     /\ \A k \in 1..Len(w) : w[k] \notin WhiteSpaceChars
     /\ \E i \in 1..(Len(s) - Len(w) + 1) :
          /\ SubSeq(s, i, i + Len(w) - 1) = w
          /\ (i = 1 \/ s[i - 1] \in WhiteSpaceChars)
          /\ (i + Len(w) - 1 = Len(s) \/ s[i + Len(w)] \in WhiteSpaceChars)}

GuessTitleNormalized == cleanTitleForComparison(originalTitle)
TrackTitleNormalized == cleanTitleForComparison(track.name)

\* the candidate has an artist and it is the guess's, letter case aside
SameArtist ==
  /\ track.artists # <<>>
  /\ Lowered(track.artists[1].name) = Lowered(originalArtist)

\* the candidate's artist and the guess's are equal or one contains the other,
\* letter case aside
ArtistsMatch ==
  /\ track.artists # <<>>
  /\ \/ Contains(Lowered(track.artists[1].name), Lowered(originalArtist))
     \/ Contains(Lowered(originalArtist), Lowered(track.artists[1].name))

NoCommonToken == TokensOf(GuessTitleNormalized) \cap TokensOf(TrackTitleNormalized) = {}

OneTitleInTheOther ==
  \/ Contains(GuessTitleNormalized, TrackTitleNormalized)
  \/ Contains(TrackTitleNormalized, GuessTitleNormalized)

Scored == pc \in {"scored", "rescored"}

Accepted == FGreater(score, D0_7)

-----------------------------------------------------------------------------
(* Statements about the scorer *)

\* C8: every score is a number of [0, 1], the sum of a title, an artist and a
\* popularity component capped at 1.0; scoring the same candidate against the
\* same guess again gives the same value and changes neither of them.
C8_ScoreWithinUnitInterval ==
  /\ [](Scored =>
          /\ FAtMost(D0_0, score) /\ FAtMost(score, D1_0)
          /\ \E t \in TitleWeights, a \in ArtistWeights, p \in PopularityWeights :
               score = FMin(FAdd(FAdd(t, a), p), D1_0))
  /\ [][pc = "scored" => /\ score' = score
                         /\ track' = track
                         /\ originalTitle' = originalTitle
                         /\ originalArtist' = originalArtist]_vars

\* a second scoring of a popular candidate with the guess's title and artist
C8_Witness ==
  /\ pc = "rescored"
  /\ originalTitle = <<"a">>
  /\ track.name = <<"a">>
  /\ originalArtist = <<"A","b","c">>
  /\ SameArtist
  /\ track.popularity > PopularityThreshold
  /\ score = D0_6p0_3p0_1

\* C9 as stated: a candidate with the guess's normalized title and, letter case
\* aside, the guess's known artist scores at least 0.9 and is accepted.
C9_AtLeastNineTenths ==
  (Scored /\ IsKnownArtist(originalArtist) /\ SameArtist
     /\ GuessTitleNormalized = TrackTitleNormalized) =>
    (FAtMost(D0_9, score) /\ Accepted)

\* C9: a candidate with the guess's normalized title and, letter case aside,
\* the guess's known artist scores the binary64 sum 0.6 + 0.3, which is
\* 0.8999999999999999, or 0.9999999999999999 with the popularity bonus; either
\* way it is accepted.
C9_ExactMatchAccepted ==
  (Scored /\ IsKnownArtist(originalArtist) /\ SameArtist
     /\ GuessTitleNormalized = TrackTitleNormalized) =>
    /\ score = IF track.popularity > PopularityThreshold THEN D0_6p0_3p0_1 ELSE D0_6p0_3
    /\ FLess(score, D1_0)
    /\ Accepted

\* an unpopular candidate whose title differs from the guess's by a removed
\* parenthetical and whose artist differs by letter case
C9_Witness ==
  /\ pc = "scored"
  /\ originalTitle = <<"a","(","L","y","r","i","c","s",")","!">>
  /\ track.name = <<"a">>
  /\ originalArtist = <<"A","b","c">>
  /\ track.artists = << [name |-> <<"a","b","c">>] >>
  /\ track.popularity = PopularityThreshold
  /\ score = D0_6p0_3
  /\ FLess(score, D0_9)

\* C10 as stated: a candidate whose normalized title has no token in common
\* with the guess's and whose artist does not match scores between 0 and 0.1
\* and is not accepted.
C10_AtMostOneTenth ==
  (Scored /\ NoCommonToken /\ ~ArtistsMatch) =>
    (FAtMost(D0_0, score) /\ FAtMost(score, D0_1) /\ ~Accepted)

\* C10: a candidate whose normalized title has no token in common with the
\* guess's and whose artist does not match is not accepted; it scores 0, or
\* 0.1 with the popularity bonus, when neither normalized title contains the
\* other, and otherwise 0.4 or 0.6 (both titles empty) plus the bonus.
C10_NoOverlapRejected ==
  (Scored /\ NoCommonToken /\ ~ArtistsMatch) =>
    LET bonus == IF track.popularity > PopularityThreshold THEN D0_1 ELSE D0_0 IN
    /\ ~Accepted
    /\ ~OneTitleInTheOther => score = bonus
    /\ OneTitleInTheOther =>
         score = FAdd(IF GuessTitleNormalized = TrackTitleNormalized THEN D0_6 ELSE D0_4, bonus)

\* a popular candidate by another artist whose title shares no word with the
\* guess's
C10_Witness ==
  /\ pc = "scored"
  /\ originalTitle = <<"a">>
  /\ track.name = <<"b"," ">>
  /\ originalArtist = <<"A","b","c">>
  /\ track.artists = << [name |-> <<"X","y","z">>] >>
  /\ track.popularity > PopularityThreshold
  /\ score = D0_1

-----------------------------------------------------------------------------
(* Vocabulary of the statements about the reconciliation *)

\* enrichMetadataWithAPIs has returned
Reconciled == pc \in {"validate", "persist", "done", "uploadFailed"}

\* a provider supplied the returned record
Supplied == Reconciled /\ providerRecord # Null

\* the title, the first artist and the popularity of a candidate of provider p;
\* the candidates of Last.fm and MusicBrainz carry no popularity
Scorable(p, c) ==
  IF p = "spotify" THEN [name |-> c.name, artists |-> c.artists, popularity |-> c.popularity]
  ELSE IF p = "lastfm"
    THEN [name |-> c.name, artists |-> <<[name |-> c.artist]>>, popularity |-> 0]
    ELSE [name |-> c.title, artists |-> <<[name |-> c.creditName]>>, popularity |-> 0]

\* the similarity score of a candidate against the BasicGuess
CandidateScore(p, c) ==
  calculateSimilarityScore(Scorable(p, c), basicMetadata.title,
                           OrElse(basicMetadata.artist, UnknownArtist))

AboveThreshold(s) == FGreater(s, D0_7)

\* the requests of the log sent to provider p
CallsTo(p) == {k \in 1..Len(calls) : calls[k].provider = p}

-----------------------------------------------------------------------------
(* Statements about the reconciliation *)

\* C11: whichever provider supplies the returned record, the record comes from
\* a candidate whose similarity score against the BasicGuess is strictly
\* greater than 0.7.
C11_RecordFromCandidateAboveThreshold ==
  Supplied => AboveThreshold(CandidateScore(provider, track))

\* the priority of a provider: Spotify, then Last.fm, then MusicBrainz
Rank(p) == IF p = "spotify" THEN 1 ELSE IF p = "lastfm" THEN 2 ELSE 3

Providers == {"spotify", "lastfm", "musicbrainz"}

\* C12: the providers are consulted in the order Spotify, Last.fm,
\* MusicBrainz: a request goes to a provider only after every provider of
\* higher priority has been asked, none is asked again after a provider of
\* lower priority, and once a provider has yielded a record that record is
\* returned and the last request of the run is one to that provider.
C12_ProvidersInPriorityOrder ==
  /\ \A i, j \in 1..Len(calls) :
       i < j => Rank(calls[i].provider) <= Rank(calls[j].provider)
  /\ \A k \in 1..Len(calls) : \A p \in Providers :
       Rank(p) < Rank(calls[k].provider) => \E i \in 1..(k - 1) : calls[i].provider = p
  /\ providerRecord # Null =>
       /\ Reconciled
       /\ provider \in Providers
       /\ calls[Len(calls)].provider = provider
  /\ providerRecord = Null => provider = "none"

\* Spotify and Last.fm were asked and yielded nothing, MusicBrainz supplied
\* the record
C12_Witness ==
  /\ pc = "done"
  /\ provider = "musicbrainz"
  /\ CallsTo("spotify") # {}
  /\ CallsTo("lastfm") # {}
  /\ calls[Len(calls)] = Call("musicbrainz", "get", <<>>, "ok")

\* POST has validated the record enrichMetadataWithAPIs returned
Validated == pc \in {"persist", "done", "uploadFailed"}

\* one of two strings contains the other, letter case aside
Agree(x, y) ==
  \/ Contains(Lowered(x), Lowered(y))
  \/ Contains(Lowered(y), Lowered(x))

\* the title and the artist of the provider's record agree with the guess's
AgreesWithGuess ==
  /\ Agree(providerRecord.title, basicMetadata.title)
  /\ Agree(providerRecord.artist, basicMetadata.artist)

\* the two records have the same supplementary fields
SameSupplement(x, y) ==
  /\ x.releaseDate = y.releaseDate
  /\ x.duration = y.duration
  /\ x.genres = y.genres
  /\ x.popularity = y.popularity
  /\ x.spotifyId = y.spotifyId
  /\ x.albumCover = y.albumCover
  /\ x.artistId = y.artistId
  /\ x.albumId = y.albumId

\* the record has the title, the artist and the album of the guess
KeepsGuess(x) ==
  /\ x.title = basicMetadata.title
  /\ x.artist = basicMetadata.artist
  /\ x.album = basicMetadata.album

\* C13: when the title or the artist of the accepted provider record does not
\* agree with the BasicGuess, the final record keeps the guess's title, artist
\* and album and takes the supplementary fields of the provider record; the
\* enrichment is not discarded.
C13_HybridKeepsGuessAndSupplement ==
  (Validated /\ providerRecord # Null /\ ~AgreesWithGuess) =>
    /\ enrichedMetadata # Null
    /\ KeepsGuess(enrichedMetadata)
    /\ SameSupplement(enrichedMetadata, providerRecord)

\* Spotify's "a b" by "abc" is accepted for the guess "a!b" by "Ab" and fails
\* the validation of the title
C13_Witness ==
  /\ pc = "done"
  /\ provider = "spotify"
  /\ basicMetadata.title = <<"a","!","b">>
  /\ providerRecord.title = <<"a"," ","b">>
  /\ enrichedMetadata.title = <<"a","!","b">>
  /\ enrichedMetadata.album = <<"B">>
  /\ enrichedMetadata.spotifyId = <<"t1">>
  /\ enrichedMetadata.genres = <<"rock", "live">>

\* the positions of POST from the call of enrichMetadataWithAPIs to its end
Steps ==
  {"spotifyToken", "spotifySearch", "spotifyDetails", "spotifyArtist", "spotifyAlbum",
   "lastfmSearch", "lastfmInfo", "musicbrainzSearch", "musicbrainzGet",
   "validate", "persist", "done", "uploadFailed"}

\* the requests one run can send: the token exchange, one search per query,
\* a second token exchange and two detail requests, or the two requests of
\* Last.fm and the two of MusicBrainz
CallBound == Len(searchQueries) + 5

\* the final record is null, the provider's record or a hybrid of the guess
\* and the provider's record
ResultKind ==
  IF providerRecord = Null THEN enrichedMetadata = Null
  ELSE \/ enrichedMetadata = providerRecord
       \/ KeepsGuess(enrichedMetadata) /\ SameSupplement(enrichedMetadata, providerRecord)

\* C14: whatever the providers answer (success, empty result, a response that
\* is not ok, a transport or parse error, a failed token exchange), the
\* reconciliation sends a bounded number of requests, never leaves the
\* handler's steps through an exception, returns, and its result is null, the
\* provider's record or a hybrid.
C14_TotalAndBounded ==
  /\ [](pc \in Steps /\ Len(calls) <= CallBound /\ (Validated => ResultKind))
  /\ <>Reconciled

\* every request of the three providers failed and the result is null
C14_Witness ==
  /\ pc = "done"
  /\ enrichedMetadata = Null
  /\ Len(calls) = 3
  /\ calls[1] = Call("spotify", "token", <<>>, "status")
  /\ calls[2] = Call("lastfm", "search", <<>>, "error")
  /\ calls[3] = Call("musicbrainz", "search", <<>>, "status")

\* the row has been inserted
Persisted == pc = "done"

\* C15: when no provider yields an accepted record the result of the
\* reconciliation is null, and the persisted row has exactly the title, the
\* artist and the album of the BasicGuess and null in every supplementary
\* column (release date, duration, genres, popularity, external ids).
C15_NullResultPersistsGuess ==
  /\ (Validated /\ providerRecord = Null) => enrichedMetadata = Null
  /\ (Persisted /\ providerRecord = Null) =>
       /\ row.title = basicMetadata.title
       /\ row.artist = basicMetadata.artist
       /\ row.album = basicMetadata.album
       /\ row.release_date = Null
       /\ row.duration = Null
       /\ row.genres = Null
       /\ row.popularity = Null
       /\ row.spotify_id = Null
       /\ row.artist_id = Null
       /\ row.album_id = Null

\* Spotify rejected every candidate, Last.fm and MusicBrainz found nothing,
\* and the guess "a!b" by "Ab" of the album "B" was stored
C15_Witness ==
  /\ pc = "done"
  /\ providerRecord = Null
  /\ \E k \in CallsTo("spotify") : calls[k].request = "search" /\ calls[k].outcome = "ok"
  /\ CallsTo("musicbrainz") # {}
  /\ row.title = <<"a","!","b">>
  /\ row.artist = <<"A","b">>
  /\ row.album = <<"B">>
  /\ row.duration = Null

\* the k-th request of the log is a search that met a transport error, a
\* response that is not ok, or an empty result
FailedSearch(k) ==
  /\ calls[k].request = "search"
  /\ calls[k].outcome \in {"error", "status", "empty"}

\* the provider tried after p
NextProvider(p) == IF p = "spotify" THEN "lastfm" ELSE "musicbrainz"

\* C16: a search of any of the three providers that meets a transport error,
\* a response that is not ok or an empty result raises nothing and yields no
\* candidate: the request after it is a search again, of the same provider or
\* of the next one, and unless the provider itself supplies the record later
\* the next provider is tried.
C16_FailedSearchGoesOn ==
  /\ pc \in Steps
  /\ \A k \in 1..Len(calls) : FailedSearch(k) =>
       /\ k = Len(calls) => track = Null /\ providerRecord = Null
       /\ k < Len(calls) =>
            /\ calls[k].provider # "musicbrainz"
            /\ calls[k + 1].request = "search"
            /\ calls[k + 1].provider \in {calls[k].provider, NextProvider(calls[k].provider)}
       /\ (Reconciled /\ calls[k].provider # "musicbrainz" /\ provider # calls[k].provider) =>
            CallsTo(NextProvider(calls[k].provider)) # {}

\* a Spotify search is refused, the next finds nothing, the third fails in
\* transport; the search of Last.fm finds nothing; MusicBrainz supplies the
\* record
C16_Witness ==
  /\ pc = "done"
  /\ provider = "musicbrainz"
  /\ Len(calls) = 7
  /\ Len(searchQueries) >= 3
  /\ calls[2].outcome = "status"
  /\ calls[3].outcome = "empty"
  /\ calls[4] = Call("spotify", "search", searchQueries[3], "error")
  /\ calls[5] = Call("lastfm", "search", <<>>, "empty")
  /\ calls[6] = Call("musicbrainz", "search", <<>>, "ok")

\* the token exchange of Spotify failed
TokenFailed == calls # <<>> /\ calls[1].outcome # "ok"

\* C17: when the token exchange of the primary provider fails (an error
\* response, a body without access_token, or a transport error) the primary
\* provider sends no search and contributes no record, nothing is raised, and
\* the next request is the search of the secondary provider.
C17_TokenFailureSkipsPrimary ==
  TokenFailed =>
    /\ pc \in Steps
    /\ calls[1] \in {Call("spotify", "token", <<>>, "status"),
                     Call("spotify", "token", <<>>, "error")}
    /\ CallsTo("spotify") = {1}
    /\ provider # "spotify"
    /\ IF Len(calls) = 1
         THEN pc = "lastfmSearch" /\ track = Null /\ providerRecord = Null
         ELSE calls[2].provider = "lastfm" /\ calls[2].request = "search"

\* the token request failed in transport and Last.fm supplied the record
C17_Witness ==
  /\ pc = "done"
  /\ calls[1] = Call("spotify", "token", <<>>, "error")
  /\ provider = "lastfm"
  /\ Len(calls) = 3

\* the number of the query the k-th request of the log searched for
QueryNumber(k) ==
  Cardinality({j \in 1..k : calls[j].provider = "spotify" /\ calls[j].request = "search"})

\* the k-th request of the log is a Spotify search that got a response that
\* is not ok or met a transport error
FailedQuery(k) ==
  /\ calls[k].provider = "spotify"
  /\ calls[k].request = "search"
  /\ calls[k].outcome \in {"status", "error"}

\* C18: there is no retry in the query loop: after the search for query i
\* fails (a response that is not ok or a transport error) the same query is
\* not sent again, and the next request is the search for query i+1 if one
\* remains, otherwise the first request of the next provider.
C18_FailedQueryThenNextQuery ==
  \A k \in 1..Len(calls) : FailedQuery(k) =>
    /\ \A j \in (k + 1)..Len(calls) :
         ~(calls[j].provider = "spotify" /\ calls[j].request = "search"
           /\ calls[j].query = calls[k].query)
    /\ k < Len(calls) =>
         IF QueryNumber(k) < Len(searchQueries)
           THEN calls[k + 1] \in
                  {Call("spotify", "search", searchQueries[QueryNumber(k) + 1], o) :
                     o \in {"ok", "empty", "status", "error"}}
           ELSE calls[k + 1].provider = "lastfm" /\ calls[k + 1].request = "search"
    /\ k = Len(calls) =>
         IF QueryNumber(k) < Len(searchQueries)
           THEN pc = "spotifySearch" /\ queryIndex = QueryNumber(k) + 1
           ELSE pc = "lastfmSearch"

-----------------------------------------------------------------------------
(* A further statement about the query builder *)

\* C19: the variants for the first and for the last token of the artist are
\* emitted only for a token of more than 2 characters that is not the token of
\* an earlier variant (the full artist; for the last token also the first
\* token), so the returned list never holds the same query twice, a
\* single-word artist included.
C19_NoQueryTwice ==
  pc \in {"built", "rebuilt"} =>
    \A i, j \in 1..Len(searchQueries) : i < j => searchQueries[i] # searchQueries[j]

-----------------------------------------------------------------------------
(* A further statement about the reconciliation *)

\* the candidates the searches of provider p have returned
ReturnedBy(p) == {r.track : r \in {x \in returned : x.provider = p}}

\* C20: the candidate a provider accepts is the highest-scoring of all the
\* candidates its searches returned over all its query attempts.
C20_AcceptedIsBestReturned ==
  Supplied =>
    \A c \in ReturnedBy(provider) :
      ~FGreater(CandidateScore(provider, c), CandidateScore(provider, track))

-----------------------------------------------------------------------------
(* C21 *)

\* the normalized titles of x and y contain one another
NormalizedTitlesAgree(x, y) ==
  LET nx == cleanTitleForComparison(x.title)
      ny == cleanTitleForComparison(y.title)
  IN Includes(nx, ny) \/ Includes(ny, nx)

\* the artists of x and y contain one another, letter case aside
ArtistsAgree(x, y) == Agree(x.artist, y.artist)

\* the validation let the provider's record through as it was
PassedValidation == enrichedMetadata = providerRecord

\* C21: the validation after acceptance passes exactly when the normalized
\* title of the candidate and the normalized title of the guess contain one
\* another and the artist of the candidate and the artist of the guess contain
\* one another; a record that agrees in this way is returned in full and is
\* not replaced by the hybrid.
C21_ValidationOnNormalizedStrings ==
  (Validated /\ providerRecord # Null) =>
     (PassedValidation <=>
        (NormalizedTitlesAgree(providerRecord, basicMetadata)
         /\ ArtistsAgree(providerRecord, basicMetadata)))

-----------------------------------------------------------------------------
(* The token cache of one MusicMetadataEnricher, shared by calls of         *)
(* enrichMetadata that run concurrently.  JavaScript runs each stretch of   *)
(* code between two awaits without interruption, so one step of a call is   *)
(* the code from one await to the next.  The clock is in seconds and moves  *)
(* while the calls await the network.                                       *)

\* the concurrent calls of enrichMetadata on the adapter
Callers == {1, 2}

\* the clock stops here
MaxTime == 3

\* the searches one call sends at most (the queries of buildSearchQueries)
MaxSearches == 2

\* the token responses of one run at most
MaxExchanges == 3

\* data.expires_in of a token response, in seconds
ExpiresIn == {2, 3}

\* data.access_token: the endpoint issues a new token at every exchange
TokenOf(n) == <<"token", n>>

\* a call of enrichMetadata at the call of searchSpotifyTrack
NewCaller == [pc |-> "searchToken", token |-> NullString, sent |-> 0, calledAt |-> 0]

\* what the adapter did last
Event(what, c, token) == [event |-> what, caller |-> c, token |-> token, at |-> now]

InitToken ==
  /\ pc = "adapter"
  /\ accessToken = NullString
  /\ tokenExpiry = 0
  /\ now = 0
  /\ callers = [c \in Callers |-> NewCaller]
  /\ issued = <<>>
  /\ event = [event |-> "none", caller |-> 0, token |-> NullString, at |-> 0]
  /\ label = Idle
  /\ basicMetadata = Idle
  /\ originalTitle = Idle
  /\ originalArtist = Idle
  /\ searchQueries = Idle
  /\ track = Idle
  /\ score = Idle
  /\ queryIndex = Idle
  /\ calls = Idle
  /\ returned = Idle
  /\ provider = Idle
  /\ providerRecord = Idle
  /\ enrichedMetadata = Idle
  /\ row = Idle
  /\ HandlerIdle

\* what the token cache does not use
NotOfAdapter ==
  <<pc, label, basicMetadata, originalTitle, originalArtist, searchQueries, track,
    score, queryIndex, calls, returned, provider, providerRecord, enrichedMetadata,
    row, handlerVars>>

\* the position of a call once getAccessToken has returned
AfterToken(at) == IF at \in {"searchToken", "searchExchange"} THEN "search" ELSE "details"
\* the position of a call while getAccessToken awaits the token endpoint
Awaiting(at) == IF at = "searchToken" THEN "searchExchange" ELSE "detailsExchange"

\* getAccessToken: this.accessToken && Date.now() < this.tokenExpiry
IsFresh == accessToken # NullString /\ now < tokenExpiry

\* getAccessToken up to its first await: the cached token is returned, or the
\* exchange is sent
GetAccessToken(c) ==
  /\ callers[c].pc \in {"searchToken", "detailsToken"}
  /\ IF IsFresh
       THEN /\ callers' = [callers EXCEPT ![c].pc = AfterToken(callers[c].pc),
                                          ![c].token = accessToken,
                                          ![c].sent = 0]
            /\ event' = Event("cached", c, accessToken)
       ELSE /\ callers' = [callers EXCEPT ![c].pc = Awaiting(callers[c].pc),
                                          ![c].calledAt = now]
            /\ event' = Event("call", c, NullString)
  /\ UNCHANGED <<accessToken, tokenExpiry, now, issued>>
  /\ UNCHANGED NotOfAdapter

\* a failed exchange empties the cache
ExchangeFailed_Clears ==
  /\ accessToken' = NullString
  /\ tokenExpiry' = 0

\* getAccessToken: the throw and the catch leave the fields as they are
ExchangeFailed == UNCHANGED <<accessToken, tokenExpiry>>

\* getAccessToken from the answer of the token endpoint to its return.  A
\* failure is rethrown; searchSpotifyTrack returns null on it and
\* enrichTrackData returns the track without details
TokenResponse(c) ==
  /\ callers[c].pc \in {"searchExchange", "detailsExchange"}
  /\ \/ /\ ExchangeFailed
        /\ callers' = [callers EXCEPT ![c].pc = "returned", ![c].token = NullString]
        /\ event' = Event("failure", c, NullString)
        /\ UNCHANGED issued
     \/ /\ Len(issued) < MaxExchanges
        /\ \E expires_in \in ExpiresIn :
             \E token \in {TokenOf(Len(issued) + 1)} :
                /\ accessToken' = token
                /\ tokenExpiry' = now + expires_in
                /\ callers' = [callers EXCEPT ![c].pc = AfterToken(callers[c].pc),
                                              ![c].token = token,
                                              ![c].sent = 0]
                /\ issued' = Append(issued, [token |-> token, expires_in |-> expires_in,
                                             at |-> now])
                /\ event' = Event("exchange", c, token)
  /\ UNCHANGED now
  /\ UNCHANGED NotOfAdapter

\* searchSpotifyTrack: one turn of the for loop, with the token of the one
\* getAccessToken before the loop.  The answer ends the search without a
\* match, has a good match, or leaves the loop going
Search(c) ==
  /\ callers[c].pc = "search"
  /\ event' = Event("request", c, callers[c].token)
  /\ \E next \in {"search", "detailsToken", "returned"} :
       /\ next = "search" => callers[c].sent + 1 < MaxSearches
       /\ callers' = [callers EXCEPT ![c].pc = next, ![c].sent = callers[c].sent + 1]
  /\ UNCHANGED <<accessToken, tokenExpiry, now, issued>>
  /\ UNCHANGED NotOfAdapter

\* enrichTrackData: the artist request, then the album request, with the
\* token of its getAccessToken
Details(c) ==
  /\ callers[c].pc = "details"
  /\ event' = Event("request", c, callers[c].token)
  /\ callers' = [callers EXCEPT ![c].pc = IF callers[c].sent = 0 THEN "details" ELSE "returned",
                                ![c].sent = callers[c].sent + 1]
  /\ UNCHANGED <<accessToken, tokenExpiry, now, issued>>
  /\ UNCHANGED NotOfAdapter

\* getAccessToken has returned to the call and its first request is not sent
\* yet: no await of the network lies between the two
HoldsNewToken(c) == callers[c].pc \in {"search", "details"} /\ callers[c].sent = 0

\* time passes while the calls await the network
Tick ==
  /\ now < MaxTime
  /\ \E c \in Callers : callers[c].pc # "returned"
  /\ \A c \in Callers : ~HoldsNewToken(c)
  /\ now' = now + 1
  /\ UNCHANGED <<accessToken, tokenExpiry, callers, issued, event>>
  /\ UNCHANGED NotOfAdapter

NextToken ==
  \/ \E c \in Callers : GetAccessToken(c)
  \/ \E c \in Callers : TokenResponse(c)
  \/ \E c \in Callers : Search(c)
  \/ \E c \in Callers : Details(c)
  \/ Tick

SpecToken == InitToken /\ [][NextToken]_vars

-----------------------------------------------------------------------------
(* C22 *)

\* the expiry the token endpoint declared for a token it issued: the time of
\* the response plus expires_in
DeclaredExpiry(token) ==
  LET k == CHOOSE k \in 1..Len(issued) : issued[k].token = token
  IN issued[k].at + issued[k].expires_in

\* the adapter has just returned the cached token without an exchange
ReturnedCached == event.event = "cached"

\* the adapter has just sent an exchange to the token endpoint
SentExchange == event.event = "call"

\* the adapter has just sent a search or a detail request
SentRequest == event.event = "request"

\* C22: getAccessToken returns the cached token without an exchange only while
\* the time is earlier than the declared expiry of the token minus a skew (of
\* one second at least), it performs an exchange otherwise, and no search or
\* detail request carries a token whose declared lifetime has elapsed.
C22_TokenRefreshedBeforeExpiry ==
  /\ ReturnedCached => event.at + 1 < DeclaredExpiry(event.token)
  /\ SentExchange => (accessToken = NullString \/ ~(event.at + 1 < tokenExpiry))
  /\ SentRequest => event.at < DeclaredExpiry(event.token)

\* the part of C22 on the calls of getAccessToken, with no skew
C22_CachedWhileUnexpired ==
  /\ ReturnedCached => event.at < DeclaredExpiry(event.token)
  /\ SentExchange => (accessToken = NullString \/ ~(event.at < tokenExpiry))

\* the part of C22 on the requests
C22_NoRequestWithElapsedToken ==
  SentRequest => event.at < DeclaredExpiry(event.token)

-----------------------------------------------------------------------------
(* C23 *)

\* a successful exchange answered with this token
WasIssued(token) == \E k \in 1..Len(issued) : issued[k].token = token

\* the cached token and the cached expiry are those of one token response
CachePaired ==
  accessToken # NullString =>
    \E k \in 1..Len(issued) :
       /\ issued[k].token = accessToken
       /\ tokenExpiry = issued[k].at + issued[k].expires_in

\* every call to which getAccessToken has returned holds an issued token
ReturnedIssuedToken ==
  \A c \in Callers : callers[c].pc \in {"search", "details"} => WasIssued(callers[c].token)

\* a step other than the passing of time leaves a valid cached token valid
KeepsValidToken == (IsFresh /\ now' = now) => IsFresh'

\* C23: under every interleaving of the calls of getAccessToken on one
\* adapter, a call that returns holds a token of a successful exchange, the
\* cached token and the cached expiry come from the same response, and
\* neither a redundant refresh nor a failed exchange erases a valid cached
\* token.
C23_CacheConsistentUnderInterleaving ==
  [](CachePaired /\ ReturnedIssuedToken) /\ [][KeepsValidToken]_vars

\* the exchange of a call has failed after the exchange of a concurrent call,
\* sent later than its own, filled the cache with a token that is still valid
C23_Witness ==
  /\ event.event = "failure"
  /\ IsFresh
  /\ issued[Len(issued)].at >= callers[event.caller].calledAt
  /\ \E c \in Callers : c # event.caller /\ callers[c].token = accessToken

-----------------------------------------------------------------------------
(* C24 *)

\* C24: for every label with a character that is not white space, the title
\* and the artist the parser returns are not empty, also for a label with a
\* dash at its start or at its end such as "A - " or " - B".
C24_GuessIsUsable ==
  (pc = "parsed" /\ ~IsBlank(label)) =>
     /\ basicMetadata.title # <<>>
     /\ basicMetadata.artist # <<>>

\* C24 on the label "A - " alone
C24_TrailingDash ==
  (pc = "parsed" /\ label = <<"A", " ", "-", " ">>) => basicMetadata.title # <<>>

\* C24 on the label " - b" alone
C24_LeadingDash ==
  (pc = "parsed" /\ label = <<" ", "-", " ", "b">>) => basicMetadata.artist # <<>>

-----------------------------------------------------------------------------
(* C25 *)

\* the primary provider has accepted a candidate: searchSpotifyTrack went on
\* to enrichTrackData, or its record was returned
PrimaryAccepted ==
  \/ pc \in {"spotifyDetails", "spotifyArtist", "spotifyAlbum"}
  \/ provider = "spotify"

\* the guess has no artist but the sentinel
GuessArtistUnknown == originalArtist = Unknown(<<"A","r","t","i","s","t">>)

\* C25: when the artist of the guess is "Unknown Artist" the primary provider
\* accepts no candidate, whatever the searches return: no candidate scores
\* more than 0.6 + 0.1 = 0.7, which is not greater than the threshold.
C25_UnknownArtistNeverAccepted ==
  GuessArtistUnknown =>
     /\ ~PrimaryAccepted
     /\ \A c \in ReturnedBy("spotify") : ~AboveThreshold(CandidateScore("spotify", c))

\* every search of the primary has been answered, one of them with a track of
\* the guess's title and a popularity above 50, and Last.fm is asked next
C25_Witness ==
  /\ GuessArtistUnknown
  /\ pc = "lastfmSearch"
  /\ queryIndex = Len(searchQueries)
  /\ \E c \in ReturnedBy("spotify") :
        /\ c.name = originalTitle
        /\ c.popularity > PopularityThreshold
        /\ CandidateScore("spotify", c) = D0_7

-----------------------------------------------------------------------------
(* C26 *)

\* every word of either normalized title is a word of the other, yet neither
\* title contains the other
WordOverlapOnly ==
  /\ ~OneTitleInTheOther
  /\ TokensOf(GuessTitleNormalized) = TokensOf(TrackTitleNormalized)

\* C26: a candidate the primary provider accepts (score > 0.7) has a
\* normalized title equal to the guess's, containing it or contained in it,
\* and a first artist equal to the guess's artist, containing it or contained
\* in it, letter case aside; common words of the titles alone, or a title
\* match with no artist match, do not reach acceptance.
C26_AcceptedAgreesOnTitleAndArtist ==
  (Scored /\ Accepted) => (OneTitleInTheOther /\ ArtistsMatch)

\* a popular candidate accepted on containment alone: its normalized title
\* contains the guess's without being equal to it and its artist contains the
\* guess's without being equal to it
C26_Witness ==
  /\ Scored
  /\ Accepted
  /\ GuessTitleNormalized # TrackTitleNormalized
  /\ ~SameArtist
  /\ score = FAdd(FAdd(D0_4, D0_2), D0_1)

\* the highest score without agreement: the same words in another order, the
\* same artist and a popularity above 50 give 0.7, which is not accepted
C26_WordOverlapRejected ==
  (Scored /\ WordOverlapOnly) => ~Accepted

-----------------------------------------------------------------------------
(* C27 *)

\* the import is complete: the file is uploaded and the row inserted
Completed == pc = "done"

\* C27: in every completed import, whichever provider answered and whatever
\* it returned, the persisted title is the guess's title or a string that
\* contains it or is contained in it, letter case aside, and so is the
\* persisted artist with the guess's artist: the record of a provider never
\* puts an unrelated title or artist in their place.
C27_PersistedNamesAgreeWithGuess ==
  Completed =>
     /\ (row.title = basicMetadata.title \/ Agree(row.title, basicMetadata.title))
     /\ (row.artist = basicMetadata.artist \/ Agree(row.artist, basicMetadata.artist))

\* a completed import for which the primary provider returned a record whose
\* title is unrelated to the guess's: the guess's title is persisted
C27_Witness ==
  /\ Completed
  /\ provider = "spotify"
  /\ ~Agree(providerRecord.title, basicMetadata.title)
  /\ row.title = basicMetadata.title
  /\ row.spotify_id = Column(providerRecord.spotifyId)

-----------------------------------------------------------------------------
(* The import handler POST, from the request to the response.  One step is  *)
(* the code from one await to the next; what is awaited answers, answers    *)
(* with an error, or throws.  The metadata itself is the subject of the     *)
(* reconciliation above: here the enrichment is one operation with an       *)
(* outcome.                                                                 *)

\* what req.json() gives: it throws on a body that is not JSON; a JSON null
\* makes the destructuring throw
Bodies == {"malformed", "null", "object"}

\* the url property of the body
Urls ==
  { [type |-> "undefined", value |-> <<>>],
    [type |-> "number", value |-> <<>>],
    [type |-> "string", value |-> <<>>],
    [type |-> "string", value |-> <<"u", "r", "l">>] }

Requests == [body : Bodies, url : Urls, user : BOOLEAN]

\* the name the handler gives to the uploaded file
FileName == <<"f", "i", "l", "e", "N", "a", "m", "e">>

\* one operation on the outside world: a download, the calls to the
\* providers, an upload to the storage, an insert, the unlink
Op(what, outcome) == [what |-> what, outcome |-> outcome]

\* NextResponse.json(...) of an error
ErrorResponse(status) == [status |-> status, ok |-> FALSE, fileName |-> <<>>]

InitImport ==
  /\ pc = "json"
  /\ req \in Requests
  /\ response = Null
  /\ tempFile = "none"
  /\ effects = <<>>
  /\ label = Idle
  /\ basicMetadata = Idle
  /\ originalTitle = Idle
  /\ originalArtist = Idle
  /\ searchQueries = Idle
  /\ track = Idle
  /\ score = Idle
  /\ EnrichIdle
  /\ AdapterIdle

\* what the handler does not use
NotOfHandler ==
  <<label, basicMetadata, originalTitle, originalArtist, searchQueries, track,
    score, enrichVars, adapterVars>>

\* the handler returns a response
Respond(r) ==
  /\ response' = r
  /\ pc' = "responded"

\* the handler goes on to its next await
GoTo(next) ==
  /\ pc' = next
  /\ UNCHANGED response

\* an empty string is taken for a url
IsValidUrl_AnyString(url) == url.type = "string"

\* !(!url || typeof url !== "string")
IsValidUrl(url) == url.type = "string" /\ url.value # <<>>

\* const { url } = await req.json() and the test of url
ReadBody ==
  /\ pc = "json"
  /\ IF req.body # "object" THEN Respond(ErrorResponse(500))
     ELSE IF ~IsValidUrl(req.url) THEN Respond(ErrorResponse(400))
     ELSE GoTo("getUser")
  /\ UNCHANGED <<req, tempFile, effects>>
  /\ UNCHANGED NotOfHandler

\* createSupabaseServerClient, supabase.auth.getUser() and the test of user
GetUser ==
  /\ pc = "getUser"
  /\ \/ Respond(ErrorResponse(500))
     \/ IF ~req.user THEN Respond(ErrorResponse(401)) ELSE GoTo("ytdlp")
  /\ UNCHANGED <<req, tempFile, effects>>
  /\ UNCHANGED NotOfHandler

\* downloadWithYtDlp(url)
DownloadWithYtDlp ==
  /\ pc = "ytdlp"
  /\ \E outcome \in {"ok", "throws"} :
       /\ effects' = Append(effects, Op("yt-dlp", outcome))
       /\ IF outcome = "ok"
            THEN tempFile' = "present" /\ GoTo("enrich")
            ELSE tempFile' = tempFile /\ GoTo("personal")
  /\ UNCHANGED req
  /\ UNCHANGED NotOfHandler

\* new YouTubeDownloader().downloadToMp3(url), the fallback
DownloadToMp3 ==
  /\ pc = "personal"
  /\ \E outcome \in {"ok", "throws"} :
       /\ effects' = Append(effects, Op("personal-system", outcome))
       /\ IF outcome = "ok"
            THEN tempFile' = "present" /\ GoTo("enrich")
            ELSE tempFile' = tempFile /\ Respond(ErrorResponse(500))
  /\ UNCHANGED req
  /\ UNCHANGED NotOfHandler

\* extractBasicMetadata, enrichMetadataWithAPIs and the validation, inside
\* their try: a record, null, or an exception that is logged
Enrich ==
  /\ pc = "enrich"
  /\ \E outcome \in {"ok", "null", "throws"} :
       effects' = Append(effects, Op("providers", outcome))
  /\ GoTo("images")
  /\ UNCHANGED <<req, tempFile>>
  /\ UNCHANGED NotOfHandler

\* getAlbumCover and getArtistImage, inside their try
FetchImages ==
  /\ pc = "images"
  /\ \E outcome \in {"ok", "null"} :
       effects' = Append(effects, Op("images", outcome))
  /\ GoTo("readFile")
  /\ UNCHANGED <<req, tempFile>>
  /\ UNCHANGED NotOfHandler

\* const fileBuffer = await readFile(filePath)
ReadFile ==
  /\ pc = "readFile"
  /\ \/ GoTo("upload")
     \/ Respond(ErrorResponse(500))
  /\ UNCHANGED <<req, tempFile, effects>>
  /\ UNCHANGED NotOfHandler

\* supabase.storage.from("audio").upload(...) and the test of uploadError
Upload ==
  /\ pc = "upload"
  /\ \E outcome \in {"ok", "error", "throws"} :
       /\ effects' = Append(effects, Op("upload", outcome))
       /\ IF outcome = "ok" THEN GoTo("insert") ELSE Respond(ErrorResponse(500))
  /\ UNCHANGED <<req, tempFile>>
  /\ UNCHANGED NotOfHandler

\* a failed insert fails the import
AfterInsert_FailsImport(outcome) ==
  IF outcome = "ok" THEN GoTo("unlink") ELSE Respond(ErrorResponse(500))

\* "Don't fail the import if metadata storage fails"
AfterInsert(outcome) == GoTo("unlink")

\* supabase.from('song_metadata').insert(...), inside its try
Insert ==
  /\ pc = "insert"
  /\ \E outcome \in {"ok", "error", "throws"} :
       /\ effects' = Append(effects, Op("insert", outcome))
       /\ AfterInsert(outcome)
  /\ UNCHANGED <<req, tempFile>>
  /\ UNCHANGED NotOfHandler

\* unlink(filePath), inside its try, and the response of the import
Unlink ==
  /\ pc = "unlink"
  /\ \E outcome \in {"ok", "throws"} :
       /\ effects' = Append(effects, Op("unlink", outcome))
       /\ tempFile' = IF outcome = "ok" THEN "deleted" ELSE tempFile
  /\ Respond([status |-> 200, ok |-> TRUE, fileName |-> FileName])
  /\ UNCHANGED req
  /\ UNCHANGED NotOfHandler

NextImport ==
  \/ ReadBody
  \/ GetUser
  \/ DownloadWithYtDlp
  \/ DownloadToMp3
  \/ Enrich
  \/ FetchImages
  \/ ReadFile
  \/ Upload
  \/ Insert
  \/ Unlink

SpecImport == InitImport /\ [][NextImport]_vars

-----------------------------------------------------------------------------
(* Statements about the import handler *)

Responded == pc = "responded"

\* the body of the request carries a url that is a string
HasStringUrl == req.body = "object" /\ req.url.type = "string"

\* the body of the request is a JSON object
HasObjectBody == req.body = "object"

\* the url of the body is a string with a character in it
HasUsableUrl == HasStringUrl /\ Len(req.url.value) > 0

\* no download was started, no provider called, nothing uploaded and no row
\* inserted, and no temporary file exists
NoSideEffect == effects = <<>> /\ tempFile = "none"

-----------------------------------------------------------------------------
(* C29 *)

\* the positions of the log at which this operation had this outcome
Done(what, outcomes) ==
  {k \in 1..Len(effects) : effects[k].what = what /\ effects[k].outcome \in outcomes}

UploadFailed == Done("upload", {"error", "throws"}) # {}

InsertFailed == Done("insert", {"error", "throws"}) # {}

\* C29: the metadata row is inserted only after the upload of the audio has
\* succeeded; when the upload fails the handler answers 500 and inserts no
\* row; when the insert fails, by an error result or by an exception, the
\* import still answers ok: true with the name of the uploaded file.
C29_InsertOnlyAfterUpload ==
  /\ \A k \in Done("insert", {"ok", "error", "throws"}) :
        \E j \in Done("upload", {"ok"}) : j < k
  /\ (Responded /\ UploadFailed) =>
        (response.status = 500 /\ ~response.ok /\ Done("insert", {"ok", "error", "throws"}) = {})
  /\ (Responded /\ InsertFailed) =>
        (response.ok /\ response.status = 200 /\ response.fileName = FileName)

\* the insert has thrown after a successful upload and the import has
\* answered ok: true
C29_Witness ==
  /\ Responded
  /\ Done("upload", {"ok"}) # {}
  /\ Done("insert", {"throws"}) # {}
  /\ response.ok

-----------------------------------------------------------------------------
(* C30 *)

\* a download has produced the temporary MP3 file
FileProduced == tempFile # "none"

\* the handler has called unlink on the temporary file
UnlinkCalled == Done("unlink", {"ok", "throws"}) # {}

\* C30: once a download has produced the temporary MP3 file, the handler
\* deletes it before it responds, on every path: after a successful import,
\* after a failed upload, after an exception while reading or uploading the
\* file.
C30_TempFileDeletedBeforeResponse ==
  (Responded /\ FileProduced) => UnlinkCalled

\* C30 on the path of the successful import alone
C30_DeletedAfterSuccess ==
  (Responded /\ FileProduced /\ response.ok) => UnlinkCalled

====
